---- MODULE Spec2Model ----
(***************************************************************************)
(* Verification model of the duquesne-filing-bot edge functions.           *)
(*                                                                         *)
(* Several state machines share this module, each with its own variables   *)
(* and its own specification:                                              *)
(*   SpecNorm  normalizeTicker of generate-portfolio-report/index.ts       *)
(*   SpecA     the request handler of generate-portfolio-report/index.ts   *)
(*             (serve, generateComparisonTable, getEODPrice, ...)          *)
(*   SpecB     generateComparisonTable / getEodPrice of the CUSIP-based    *)
(*             revision of the same function (src/unnamed/part_000)        *)
(*   SpecEod   getEodPrice of part_000 called on its own                   *)
(*   SpecSwap  generateComparisonTable of index.ts with two filings in     *)
(*             both roles                                                  *)
(*   SpecFind  findTickerByName of index.ts                                *)
(*   SpecMail  check-new-filings calling send-portfolio-email              *)
(*   SpecIngest  runs of fetch-13f-filing against the filings and holdings *)
(*             tables                                                      *)
(*   SpecDash  the Dashboard component: quarter selections and the         *)
(*             loadReport calls they start                                 *)
(*                                                                         *)
(* Strings are sequences of one-character strings, so that trimming,       *)
(* upper-casing and replacing act on characters as the code does.          *)
(* JavaScript numbers that need not be integers are fractions [n, d].      *)
(***************************************************************************)
EXTENDS Integers, Sequences, FiniteSets, TLC

VARIABLES
  \* SpecNorm
  nt_pc, nt_x, nt_y, nt_z,
  \* the price_cache table, shared by both revisions of the report function
  price_cache,
  \* SpecA: the filings store, the request and the handler's locals
  filings, filingId, a_pc,
  currentFiling, priorQuarterFiling, priorYearFiling,
  pending, a_i, a_phase, a_avg, a_enriched, g, tableData,
  comparisonData, summary, responses, calls,
  \* SpecB: the arguments and locals of generateComparisonTable (part_000)
  \* and the getEodPrice calls it has in flight
  b_pc, b_current, b_priorQ, b_priorY, b_pending, b_requestMap, b_calls,
  b_priceResults, b_table,
  \* SpecSwap: two filings and the tables of generateComparisonTable with
  \* each of them as the current one and the other as the prior quarter
  sw_done, sw_A, sw_B, sw_tableAB, sw_tableBA,
  \* SpecFind: the argument of findTickerByName, the answer of the symbol
  \* search and the value returned
  f_pc, f_issuerName, f_res, f_result,
  \* SpecMail: the run of check-new-filings (c_), the send-portfolio-email
  \* request it has made (e_) and the email_logs table
  c_pc, c_filings, c_i, c_results, c_response,
  e_pc, e_env, e_filingId, e_recipient, e_smtp, e_errorMessage, e_response,
  email_logs,
  \* SpecIngest: the filings and holdings tables and the run of
  \* fetch-13f-filing at hand
  db_filings, db_holdings,
  i_pc, i_run, i_recentFilings, i_k, i_holdings, i_filingRecord, i_processedFilings,
  i_failed,
  \* SpecDash: the state of the Dashboard component and the loadReport
  \* calls in flight
  d_pc, d_filings, d_selectedFiling, d_reportData, d_isLoading, d_inflight, d_loads

\* the positions of a getEODPrice call
GPcs == {"idle", "read", "fetch", "upsert", "done"}

normVars == <<nt_pc, nt_x, nt_y, nt_z>>

dbVars == <<price_cache>>

bVars == <<b_pc, b_current, b_priorQ, b_priorY, b_pending, b_requestMap, b_calls,
           b_priceResults, b_table>>

swVars == <<sw_done, sw_A, sw_B, sw_tableAB, sw_tableBA>>

aVars == <<filings, filingId, a_pc,
           currentFiling, priorQuarterFiling, priorYearFiling,
           pending, a_i, a_phase, a_avg, a_enriched, g, tableData,
           comparisonData, summary, responses, calls>>

findVars == <<f_pc, f_issuerName, f_res, f_result>>

mailVars == <<c_pc, c_filings, c_i, c_results, c_response,
              e_pc, e_env, e_filingId, e_recipient, e_smtp, e_errorMessage, e_response,
              email_logs>>

ingestVars == <<db_filings, db_holdings, i_pc, i_run, i_recentFilings, i_k, i_holdings,
                i_filingRecord, i_processedFilings, i_failed>>

dashVars == <<d_pc, d_filings, d_selectedFiling, d_reportData, d_isLoading, d_inflight,
              d_loads>>

\* the variables of the specifications that follow the report function
restVars == <<findVars, mailVars, ingestVars, dashVars>>

vars == <<normVars, dbVars, aVars, bVars, swVars, restVars>>

\* what each specification leaves alone
notNorm == <<dbVars, aVars, bVars, swVars, restVars>>
notA == <<normVars, bVars, swVars, restVars>>
notB == <<normVars, aVars, swVars, restVars>>
notSwap == <<normVars, dbVars, aVars, bVars, restVars>>
reportVars == <<normVars, dbVars, aVars, bVars, swVars>>
notFind == <<reportVars, mailVars, ingestVars, dashVars>>
notMail == <<reportVars, findVars, ingestVars, dashVars>>
notIngest == <<reportVars, findVars, mailVars, dashVars>>
notDash == <<reportVars, findVars, mailVars, ingestVars>>

\* "not yet computed" marker of the SpecNorm outputs
NotComputed == <<"null">>

(***************************************************************************)
(* Values.  An absent string (null, undefined) and '' are the empty        *)
(* sequence: every test the code applies to a ticker or a name (!t,        *)
(* t || 'N/A', if (!ticker)) treats them alike.  A JavaScript number that  *)
(* may be null or fractional is a fraction [n, d] in lowest terms with     *)
(* d > 0; d = 0 is null / undefined.                                       *)
(***************************************************************************)
RECURSIVE GCD(_, _)
GCD(a, b) == IF b = 0 THEN a ELSE GCD(b, a % b)

Abs(i) == IF i < 0 THEN -i ELSE i

NullNum == [n |-> 0, d |-> 0]

IsNullNum(x) == x.d = 0

\* the number n/d, d # 0
Num(n, d) ==
  LET s == IF d < 0 THEN -1 ELSE 1
      k == GCD(Abs(n), Abs(d))
  IN  [n |-> (s * n) \div k, d |-> (s * d) \div k]

Int2Num(i) == [n |-> i, d |-> 1]

NumAdd(x, y) == Num(x.n * y.d + y.n * x.d, x.d * y.d)
NumSub(x, y) == Num(x.n * y.d - y.n * x.d, x.d * y.d)
NumMul(x, y) == Num(x.n * y.n, x.d * y.d)
NumDiv(x, y) == Num(x.n * y.d, x.d * y.n)
NumGt(x, y)  == x.n * y.d > y.n * x.d
NumGe(x, y)  == x.n * y.d >= y.n * x.d

\* x > 0 as JavaScript evaluates it: false for null / undefined
IsPositive(x) == ~IsNullNum(x) /\ x.n > 0

\* truthiness of a number: neither null nor 0
Truthy(x) == ~IsNullNum(x) /\ x.n # 0

\* NUMERIC(10, 2): PostgreSQL rounds to two decimals, half away from zero
RoundNumeric2(x) ==
  IF IsNullNum(x) THEN NullNum
  ELSE LET a == Abs(x.n) * 100
           q == (2 * a + x.d) \div (2 * x.d)
       IN  Num(IF x.n < 0 THEN -q ELSE q, 100)

(***************************************************************************)
(* Strings                                                                 *)
(***************************************************************************)
IsWhitespace(c) == c \in {" ", "\t"}

\* String.prototype.toUpperCase, per character
UpperChar(c) ==
  CASE c = "a" -> "A"
    [] c = "b" -> "B"
    [] c = "k" -> "K"
    [] c = "r" -> "R"
    [] OTHER -> c

toUpperCase(s) == [i \in 1..Len(s) |-> UpperChar(s[i])]

RECURSIVE trimStart(_)
trimStart(s) ==
  IF s = <<>> THEN <<>>
  ELSE IF IsWhitespace(Head(s)) THEN trimStart(Tail(s)) ELSE s

RECURSIVE trimEnd(_)
trimEnd(s) ==
  IF s = <<>> THEN <<>>
  ELSE IF IsWhitespace(s[Len(s)]) THEN trimEnd(SubSeq(s, 1, Len(s) - 1)) ELSE s

\* String.prototype.trim
trim(s) == trimEnd(trimStart(s))

\* s.replace(/\./g, '-')
replaceDots(s) == [i \in 1..Len(s) |-> IF s[i] = "." THEN "-" ELSE s[i]]

\* s.replace(/\s+/g, '')
removeWhitespace(s) == SelectSeq(s, LAMBDA c : ~IsWhitespace(c))

\* a slip that would make "brk b" and "BRK.B" meet: whitespace becomes '-'
normalizeTicker_dashForSpace(ticker) ==
  IF ticker = <<>> THEN <<>>
  ELSE [i \in 1..Len(trim(ticker)) |->
          IF IsWhitespace(trim(ticker)[i]) \/ trim(ticker)[i] = "."
          THEN "-" ELSE UpperChar(trim(ticker)[i])]

\* generate-portfolio-report/index.ts, normalizeTicker
normalizeTicker(ticker) ==
  IF ticker = <<>> THEN <<>>
  ELSE removeWhitespace(replaceDots(toUpperCase(trim(ticker))))

(***************************************************************************)
(* SpecNorm: normalizeTicker applied once and twice to a bounded input     *)
(***************************************************************************)
MaxTickerLen == 3

TickerAlphabet == {"a", "A", ".", " ", "-"}

RECURSIVE StringsUpTo(_)
StringsUpTo(n) ==
  IF n = 0 THEN {<<>>}
  ELSE LET shorter == StringsUpTo(n - 1)
       IN  shorter \cup {Append(s, c) : s \in {t \in shorter : Len(t) = n - 1},
                                        c \in TickerAlphabet}

BRK_DOT_B   == <<"B", "R", "K", ".", "B">>
brk_space_b == <<"b", "r", "k", " ", "b">>
BRK_DASH_B  == <<"B", "R", "K", "-", "B">>
BRKB        == <<"B", "R", "K", "B">>

NormInputs == StringsUpTo(MaxTickerLen) \cup {BRK_DOT_B, brk_space_b}

NormInit ==
  /\ nt_pc = "input"
  /\ nt_x \in NormInputs
  /\ nt_y = NotComputed
  /\ nt_z = NotComputed

NormOnce ==
  /\ nt_pc = "input"
  /\ nt_y' = normalizeTicker(nt_x)
  /\ nt_pc' = "once"
  /\ UNCHANGED <<nt_x, nt_z>>
  /\ UNCHANGED notNorm

NormTwice ==
  /\ nt_pc = "once"
  /\ nt_z' = normalizeTicker(nt_y)
  /\ nt_pc' = "twice"
  /\ UNCHANGED <<nt_x, nt_y>>
  /\ UNCHANGED notNorm

NormNext == NormOnce \/ NormTwice



(***************************************************************************)
(* generate-portfolio-report/index.ts: pure helpers                        *)
(***************************************************************************)
Min(a, b) == IF a < b THEN a ELSE b

\* String.prototype.toLowerCase, per character
LowerChar(c) ==
  CASE c = "A" -> "a"
    [] c = "B" -> "b"
    [] c = "K" -> "k"
    [] c = "R" -> "r"
    [] OTHER -> c

toLowerCase(s) == [i \in 1..Len(s) |-> LowerChar(s[i])]

\* \w of a JavaScript regular expression, over the characters of the model
IsWordChar(c) == c \in {"a", "b", "k", "r", "A", "B", "K", "R", "_"}

\* s.replace(/[^\w\s]/g, "")
stripPunctuation(s) == SelectSeq(s, LAMBDA c : IsWordChar(c) \/ IsWhitespace(c))

\* s.split(/\s+/): the tokens between maximal runs of whitespace; a leading
\* or trailing run leaves an empty token, and '' splits into ['']
RECURSIVE splitWhitespace(_, _, _)
splitWhitespace(s, cur, inRun) ==
  IF s = <<>> THEN <<cur>>
  ELSE IF IsWhitespace(Head(s))
       THEN IF inRun THEN splitWhitespace(Tail(s), cur, TRUE)
            ELSE <<cur>> \o splitWhitespace(Tail(s), <<>>, TRUE)
       ELSE splitWhitespace(Tail(s), Append(cur, Head(s)), FALSE)

SeqToSet(q) == {q[i] : i \in 1..Len(q)}

tokens(s) == SeqToSet(splitWhitespace(stripPunctuation(toLowerCase(s)), <<>>, FALSE))

\* similarity(a, b): |A \cap B| / (|A \cup B| || 1)
similarity(a, b) ==
  IF a = <<>> \/ b = <<>> THEN Int2Num(0)
  ELSE LET inter == Cardinality(tokens(a) \cap tokens(b))
           union == Cardinality(tokens(a) \cup tokens(b))
       IN  Num(inter, IF union = 0 THEN 1 ELSE union)

\* String.prototype.includes
includes(s, t) ==
  \E i \in 1..(Len(s) + 1) :
    /\ i + Len(t) - 1 <= Len(s)
    /\ SubSeq(s, i, i + Len(t) - 1) = t

BOOSTER == Num(15, 100)
ACCEPT_SCORE == Num(65, 100)

\* the score findTickerByName gives one quote of the search response
candidateScore(issuerName, q) ==
  LET candName == q.name
      candTicker == q.symbol
      other == IF candName # <<>> THEN candName ELSE candTicker
      s == similarity(issuerName, other)
      booster == IF includes(toUpperCase(issuerName), toUpperCase(candTicker))
                 THEN BOOSTER ELSE Int2Num(0)
      sum == NumAdd(s, booster)
  IN  IF NumGt(sum, Int2Num(1)) THEN Int2Num(1) ELSE sum

\* the loop of findTickerByName over the quotes, keeping the first best
RECURSIVE bestCandidate(_, _, _)
bestCandidate(issuerName, quotes, best) ==
  IF quotes = <<>> THEN best
  ELSE LET score == candidateScore(issuerName, Head(quotes))
       IN  bestCandidate(issuerName, Tail(quotes),
             IF NumGt(score, best.score)
             THEN [ticker |-> Head(quotes).symbol, score |-> score]
             ELSE best)

\* a variant that returns the best candidate whatever its score
findTickerByName_noThreshold(issuerName, res) ==
  IF issuerName = <<>> THEN [ticker |-> <<>>, score |-> Int2Num(0)]
  ELSE IF res.kind # "ok" THEN [ticker |-> <<>>, score |-> Int2Num(0)]
  ELSE bestCandidate(issuerName, res.quotes, [ticker |-> <<>>, score |-> Int2Num(0)])

\* findTickerByName(issuerName) given the search service's response res
findTickerByName(issuerName, res) ==
  IF issuerName = <<>> THEN [ticker |-> <<>>, score |-> Int2Num(0)]
  ELSE IF res.kind # "ok" THEN [ticker |-> <<>>, score |-> Int2Num(0)]
  ELSE LET best == bestCandidate(issuerName, res.quotes,
                                  [ticker |-> <<>>, score |-> Int2Num(0)])
       IN  IF NumGe(best.score, ACCEPT_SCORE) THEN best
           ELSE [ticker |-> <<>>, score |-> best.score]

\* getQuarterEndDate(quarter, year): the date string `${year}-MM-DD`
getQuarterEndDate(quarter, year) ==
  CASE quarter = "Q1" -> <<year, "03-31">>
    [] quarter = "Q2" -> <<year, "06-30">>
    [] quarter = "Q3" -> <<year, "09-30">>
    [] quarter = "Q4" -> <<year, "12-31">>
    [] OTHER -> <<year, "12-31">>

NoDate == <<0, "">>

NA == <<"N", "/", "A">>

\* fetchYahooEODPrice(ticker, date) given the chart service's response resp
fetchYahooEODPrice(ticker, resp) ==
  IF ticker = <<>> \/ ticker = NA THEN NullNum
  ELSE IF resp.kind # "closes" THEN NullNum
  ELSE IF Truthy(resp.lastClose) /\ IsPositive(resp.lastClose) THEN resp.lastClose
  ELSE NullNum

\* Array.prototype.find(h => h.cusip === cusip): the first match, 0 if none
RECURSIVE findByCusip(_, _, _)
findByCusip(holdings, cusip, i) ==
  IF i > Len(holdings) THEN 0
  ELSE IF holdings[i].cusip = cusip THEN i
  ELSE findByCusip(holdings, cusip, i + 1)

NoFiling ==
  [id |-> "none", cik |-> "", quarter |-> "", year |-> 0, filing_date |-> 0,
   holdings |-> <<>>]

IsFiling(f) == f.id # "none"

\* a find whose predicate accepts the first holding whatever its cusip
priorIndex_anyCusip(prior, holding) ==
  IF IsFiling(prior) /\ prior.holdings # <<>> THEN 1 ELSE 0

\* priorQ?.holdings?.find(...): index into the prior filing's holdings, 0 if
\* the filing is absent or has no holding with this cusip
priorIndex(prior, holding) ==
  IF IsFiling(prior) THEN findByCusip(prior.holdings, holding.cusip, 1) ELSE 0

\* h.shares > 0 ? h.value_usd / h.shares : 0
avgPrice(h) ==
  IF IsPositive(h.shares) THEN NumDiv(Int2Num(h.value_usd), h.shares) ELSE Int2Num(0)

priorAvgPrice(prior, k) == IF k = 0 THEN Int2Num(0) ELSE avgPrice(prior.holdings[k])

\* priorHolding?.value_usd || 0
priorValue(prior, k) == IF k = 0 THEN 0 ELSE prior.holdings[k].value_usd

\* a prior percentage that is 0 whether or not a holding matches
priorPct_alwaysZero(prior, k) == Int2Num(0)

\* priorHolding?.percentage_of_portfolio || 0
priorPct(prior, k) ==
  IF k = 0 THEN Int2Num(0) ELSE prior.holdings[k].percentage_of_portfolio

\* priorAvg > 0 ? ((cur - priorAvg) / priorAvg) * 100 : null
avgPriceChangePct(cur, prior) ==
  IF IsPositive(prior)
  THEN NumMul(NumDiv(NumSub(cur, prior), prior), Int2Num(100))
  ELSE NullNum

\* the row object literal of generateComparisonTable.  Two fields are not in
\* the code's row: idx, the position of the holding in current.holdings, and
\* enriched, the periods whose average price an EOD price has replaced
makeRow(idx, holding, priorQ, priorY, currentAvgPrice, priorQAvgPrice, priorYAvgPrice, enriched) ==
  LET kq == priorIndex(priorQ, holding)
      ky == priorIndex(priorY, holding)
  IN  [idx |-> idx,
       enriched |-> enriched,
       company |-> holding.company_name,
       ticker |-> IF holding.ticker # <<>> THEN holding.ticker ELSE NA,
       shares |-> IF Truthy(holding.shares) THEN holding.shares ELSE Int2Num(0),
       currentValue |-> holding.value_usd,
       currentPct |-> holding.percentage_of_portfolio,
       currentAvgPrice |-> currentAvgPrice,
       priorQValue |-> priorValue(priorQ, kq),
       priorQPct |-> priorPct(priorQ, kq),
       priorQAvgPrice |-> priorQAvgPrice,
       qoqValueChange |-> holding.value_usd - priorValue(priorQ, kq),
       qoqPctChange |-> NumSub(holding.percentage_of_portfolio, priorPct(priorQ, kq)),
       qoqAvgPriceChange |-> NumSub(currentAvgPrice, priorQAvgPrice),
       qoqAvgPriceChangePct |-> avgPriceChangePct(currentAvgPrice, priorQAvgPrice),
       priorYValue |-> priorValue(priorY, ky),
       priorYPct |-> priorPct(priorY, ky),
       priorYAvgPrice |-> priorYAvgPrice,
       yoyValueChange |-> holding.value_usd - priorValue(priorY, ky),
       yoyPctChange |-> NumSub(holding.percentage_of_portfolio, priorPct(priorY, ky)),
       yoyAvgPriceChange |-> NumSub(currentAvgPrice, priorYAvgPrice),
       yoyAvgPriceChangePct |-> avgPriceChangePct(currentAvgPrice, priorYAvgPrice)]

RECURSIVE sumCurrentValue(_)
sumCurrentValue(rows) ==
  IF rows = <<>> THEN 0 ELSE Head(rows).currentValue + sumCurrentValue(Tail(rows))

\* row.currentValue / total * 100, 0 for an empty portfolio
percentOfPortfolio(row, total) ==
  IF total > 0 THEN Num(row.currentValue * 100, total) ELSE Int2Num(0)

enrich(rows) ==
  LET total == sumCurrentValue(rows)
  IN  [i \in 1..Len(rows) |->
         [f \in DOMAIN rows[i] \cup {"percentOfPortfolio"} |->
            IF f = "percentOfPortfolio" THEN percentOfPortfolio(rows[i], total)
            ELSE rows[i][f]]]

\* a sort that puts a row before the rows of equal value already placed
insertByValue_unstable(sorted, row) ==
  LET keep == {k \in 0..Len(sorted) :
                 \A j \in 1..k : sorted[j].currentValue > row.currentValue}
      k == CHOOSE m \in keep : \A o \in keep : o <= m
  IN  SubSeq(sorted, 1, k) \o <<row>> \o SubSeq(sorted, k + 1, Len(sorted))

\* one step of the stable sort with comparator (a, b) => b.currentValue -
\* a.currentValue: the row goes after every row whose value is not smaller
insertByValue(sorted, row) ==
  LET keep == {k \in 0..Len(sorted) :
                 \A j \in 1..k : sorted[j].currentValue >= row.currentValue}
      k == CHOOSE m \in keep : \A o \in keep : o <= m
  IN  SubSeq(sorted, 1, k) \o <<row>> \o SubSeq(sorted, k + 1, Len(sorted))

\* Array.prototype.sort((a, b) => b.currentValue - a.currentValue); the
\* engine's sort is stable
RECURSIVE sortByValueDesc(_, _)
sortByValueDesc(rows, acc) ==
  IF rows = <<>> THEN acc
  ELSE sortByValueDesc(Tail(rows), insertByValue(acc, Head(rows)))

TOP_N == 20

\* a slice that stops one row early
top20_oneShort(rows) == SubSeq(rows, 1, Min(TOP_N - 1, Len(rows)))

\* enrichedData.slice(0, 20)
top20(rows) == SubSeq(rows, 1, Min(TOP_N, Len(rows)))

\* the tail of generateComparisonTable: percentOfPortfolio, sort, top 20
finishTable(rows) == top20(sortByValueDesc(enrich(rows), <<>>))


(***************************************************************************)
(* SpecA: inputs                                                           *)
(***************************************************************************)
MaxHoldings == 1
LargeExtra == 1

T_AA == <<"A", "A">>
T_BB == <<"B", "B">>
T_K  == <<"K">>

NAME_1 == <<"a", "b", " ", "k">>
NAME_2 == <<"r">>

nameOfCusip(c) == IF c % 2 = 1 THEN NAME_1 ELSE NAME_2

\* the quotes the symbol search may answer with
Q_GOOD == [symbol |-> T_BB, name |-> <<"A", "b", " ", "K", ".">>]
Q_PART == [symbol |-> T_K, name |-> <<"a", "b">>]
Q_BAD  == [symbol |-> <<"R", "R">>, name |-> <<"b">>]

SearchResponses ==
  {[kind |-> "non2xx", quotes |-> <<>>], [kind |-> "exception", quotes |-> <<>>]}
  \cup {[kind |-> "ok", quotes |-> q] : q \in {<<>>, <<Q_BAD, Q_GOOD>>, <<Q_PART>>}}

PRICE_CACHED == Num(5, 2)
CLOSE_LIVE == Num(1173, 500)

YahooResponses ==
  {[kind |-> k, lastClose |-> NullNum] : k \in {"non2xx", "exception", "empty"}}
  \cup {[kind |-> "closes", lastClose |-> c] : c \in {NullNum, Int2Num(0), CLOSE_LIVE}}

StoreOutcomes == {"ok", "error", "throw"}

\* (h.value / totalValue) * 100 as fetch-13f-filing stores it in NUMERIC(5,2)
RECURSIVE sumValues(_)
sumValues(hs) == IF hs = <<>> THEN 0 ELSE Head(hs).value_usd + sumValues(Tail(hs))

withPercentages(hs) ==
  [i \in 1..Len(hs) |->
     [cusip |-> hs[i].cusip,
      company_name |-> nameOfCusip(hs[i].cusip),
      ticker |-> hs[i].ticker,
      shares |-> hs[i].shares,
      value_usd |-> hs[i].value_usd,
      percentage_of_portfolio |->
        RoundNumeric2(Num(hs[i].value_usd * 100, sumValues(hs)))]]

holdingInput(cusip, ticker, shares, value) ==
  [cusip |-> cusip, ticker |-> ticker, shares |-> shares, value_usd |-> value]

\* the holdings a current filing is drawn from: with and without a ticker,
\* with positive, zero and absent shares, with equal and different values
CurrentHoldingChoices ==
  {holdingInput(1, <<>>, Int2Num(2), 4),
   holdingInput(1, T_AA, Int2Num(0), 2),
   holdingInput(2, T_AA, NullNum, 4),
   holdingInput(2, <<>>, Int2Num(0), 2),
   holdingInput(2, T_AA, Int2Num(2), 2)}

PriorQHoldingChoices ==
  {holdingInput(1, <<>>, Int2Num(0), 1), holdingInput(1, <<>>, Int2Num(1), 4)}

PriorYHoldingChoices == {holdingInput(1, <<>>, Int2Num(0), 1)}

RECURSIVE SeqsUpTo(_, _)
SeqsUpTo(S, n) ==
  IF n = 0 THEN {<<>>}
  ELSE LET shorter == SeqsUpTo(S, n - 1)
       IN  shorter \cup {Append(q, x) : q \in {t \in shorter : Len(t) = n - 1}, x \in S}

mkFiling(id, quarter, year, date, hs) ==
  [id |-> id, cik |-> "C", quarter |-> quarter, year |-> year,
   filing_date |-> date, holdings |-> withPercentages(hs)]

\* a portfolio larger than the table: tickers and shares are set
largeHolding(i, pattern) ==
  [cusip |-> i, ticker |-> T_AA, shares |-> Int2Num(2),
   value_usd |-> CASE pattern = "asc" -> i
                   [] pattern = "desc" -> TOP_N + LargeExtra + 1 - i
                   [] pattern = "flat" -> 5
                   [] OTHER -> ((i * 7) % 5) + 1]

LargeFilings ==
  {mkFiling("f1", "Q2", 2024, 3,
            [i \in 1..(TOP_N + LargeExtra) |-> largeHolding(i, p)]) :
     p \in {"asc", "desc", "flat", "mixed"}}

\* two-holding portfolios: a tie in value between a holding to resolve and
\* one with a ticker, and two holdings that share a ticker and need its price
PairedHoldings ==
  {<<holdingInput(1, <<>>, Int2Num(2), 4), holdingInput(2, T_AA, NullNum, 4)>>,
   <<holdingInput(1, T_AA, Int2Num(0), 2), holdingInput(2, T_AA, NullNum, 4)>>}

SmallFilings ==
  {mkFiling("f1", "Q2", 2024, 3, hs) :
     hs \in SeqsUpTo(CurrentHoldingChoices, MaxHoldings) \cup PairedHoldings}

PriorQFilings ==
  {mkFiling("f0", "Q1", 2024, 2, <<h>>) : h \in PriorQHoldingChoices}

PriorYFilings ==
  {mkFiling("fy", "Q2", 2023, 1, <<h>>) : h \in PriorYHoldingChoices}

Stores ==
  {{c} \cup q \cup y :
     c \in SmallFilings,
     q \in {{}} \cup {{f} : f \in PriorQFilings},
     y \in {{}} \cup {{f} : f \in PriorYFilings}}
  \cup {{c} : c \in LargeFilings}

CacheTickers == {T_AA, T_BB, T_K}
CacheDates == {getQuarterEndDate("Q2", 2024), getQuarterEndDate("Q1", 2024),
               getQuarterEndDate("Q2", 2023)}

cacheRows(price) ==
  {[ticker |-> t, report_date |-> d, price |-> price] : t \in CacheTickers, d \in CacheDates}

InitialCaches == {{}, cacheRows(NullNum), cacheRows(PRICE_CACHED)}

G_IDLE ==
  [pc |-> "idle", ticker |-> <<>>, date |-> NoDate, cached |-> "unread",
   yahooPrice |-> NullNum, ret |-> NullNum]

AInit ==
  /\ filings \in Stores
  /\ price_cache \in InitialCaches
  /\ filingId \in {"f1", "zz"}
  /\ a_pc = "lookupCurrent"
  /\ currentFiling = NoFiling
  /\ priorQuarterFiling = NoFiling
  /\ priorYearFiling = NoFiling
  /\ pending = {}
  /\ a_i = 0
  /\ a_phase = "begin"
  /\ a_avg = [cur |-> Int2Num(0), pq |-> Int2Num(0), py |-> Int2Num(0)]
  /\ a_enriched = {}
  /\ g = G_IDLE
  /\ tableData = <<>>
  /\ comparisonData = <<>>
  /\ summary = ""
  /\ responses = <<>>
  /\ calls = {}


(***************************************************************************)
(* SpecA: serve, generateComparisonTable, getEODPrice, generateAISummary   *)
(* One action per stretch of code between two awaits.                      *)
(***************************************************************************)
\* the catch block's response with the status left at its default
errorResponse_status200(message) ==
  [status |-> 200, success |-> FALSE, error |-> message]

\* the catch block of serve: status 500 and the error's message
errorResponse(message) ==
  [status |-> 500, success |-> FALSE, error |-> message]

successResponse(cur, pq, py, data, text) ==
  [status |-> 200, success |-> TRUE, error |-> "",
   currentFiling |-> cur, priorQuarterFiling |-> pq, priorYearFiling |-> py,
   comparisonData |-> data, summary |-> text]

\* an exception reaches the catch block of serve, which answers at once
Throw(message) ==
  /\ responses' = Append(responses, errorResponse(message))
  /\ a_pc' = "done"

\* .from('filings').select().eq('id', filingId).single()
A_LookupCurrent ==
  /\ a_pc = "lookupCurrent"
  /\ \E o \in {"ok", "error"} :
       LET found == {f \in filings : f.id = filingId}
       IN  IF o = "ok" /\ found # {}
           THEN /\ currentFiling' = CHOOSE f \in found : TRUE
                /\ a_pc' = "lookupPriorQ"
                /\ UNCHANGED responses
           ELSE /\ Throw("Filing not found")
                /\ UNCHANGED currentFiling
  /\ UNCHANGED <<filings, price_cache, filingId, priorQuarterFiling, priorYearFiling,
                 pending, a_i, a_phase, a_avg, a_enriched, g, tableData, comparisonData,
                 summary, calls>>
  /\ UNCHANGED notA

\* .eq('cik').lt('filing_date').order('filing_date', desc).limit(1).maybeSingle()
A_LookupPriorQ ==
  /\ a_pc = "lookupPriorQ"
  /\ \E o \in {"ok", "error"} :
       LET cands == {f \in filings : /\ f.cik = currentFiling.cik
                                     /\ f.filing_date < currentFiling.filing_date}
           latest == {f \in cands : \A h \in cands : h.filing_date <= f.filing_date}
       IN  IF o = "ok" /\ cands # {}
           THEN \E f \in latest : priorQuarterFiling' = f
           ELSE priorQuarterFiling' = NoFiling
  /\ a_pc' = "lookupPriorY"
  /\ UNCHANGED <<filings, price_cache, filingId, currentFiling, priorYearFiling,
                 pending, a_i, a_phase, a_avg, a_enriched, g, tableData, comparisonData,
                 summary, responses, calls>>
  /\ UNCHANGED notA

\* .eq('cik').eq('quarter').eq('year', currentFiling.year - 1).maybeSingle()
A_LookupPriorY ==
  /\ a_pc = "lookupPriorY"
  /\ \E o \in {"ok", "error"} :
       LET cands == {f \in filings : /\ f.cik = currentFiling.cik
                                     /\ f.quarter = currentFiling.quarter
                                     /\ f.year = currentFiling.year - 1}
       IN  IF o = "ok" /\ Cardinality(cands) = 1
           THEN priorYearFiling' = CHOOSE f \in cands : TRUE
           ELSE priorYearFiling' = NoFiling
  /\ a_pc' = "startTable"
  /\ UNCHANGED <<filings, price_cache, filingId, currentFiling, priorQuarterFiling,
                 pending, a_i, a_phase, a_avg, a_enriched, g, tableData, comparisonData,
                 summary, responses, calls>>
  /\ UNCHANGED notA

\* the holdings the first pass starts a findTickerByName call for
\* a condition that resolves every holding with a company name
needsResolution_anyTicker(h) == h.company_name # <<>>

\* !holding.ticker && holding.company_name
needsResolution(h) == h.ticker = <<>> /\ h.company_name # <<>>

\* generateComparisonTable up to `await Promise.all(tickerResolutionPromises)`
A_StartResolution ==
  /\ a_pc = "startTable"
  /\ LET hs == currentFiling.holdings
         todo == {i \in 1..Len(hs) : needsResolution(hs[i])}
     IN  /\ pending' = todo
         /\ calls' = IF todo # {} THEN calls \cup {"search"} ELSE calls
         /\ a_pc' = IF todo # {} THEN "resolving" ELSE "rows"
  /\ a_i' = 1
  /\ a_phase' = "begin"
  /\ UNCHANGED <<filings, price_cache, filingId, currentFiling, priorQuarterFiling,
                 priorYearFiling, a_avg, a_enriched, g, tableData, comparisonData, summary,
                 responses>>
  /\ UNCHANGED notA

\* one findTickerByName call completes and its .then callback runs
A_ResolveTicker(i) ==
  /\ a_pc = "resolving"
  /\ i \in pending
  /\ \E res \in SearchResponses :
       LET h == currentFiling.holdings[i]
           result == findTickerByName(h.company_name, res)
       IN  currentFiling' =
             IF result.ticker # <<>>
             THEN [currentFiling EXCEPT !.holdings[i].ticker = result.ticker]
             ELSE currentFiling
  /\ pending' = pending \ {i}
  /\ a_pc' = IF pending' = {} THEN "rows" ELSE "resolving"
  /\ UNCHANGED <<filings, price_cache, filingId, priorQuarterFiling, priorYearFiling,
                 a_i, a_phase, a_avg, a_enriched, g, tableData, comparisonData, summary,
                 responses, calls>>
  /\ UNCHANGED notA

nextPhase(p) ==
  CASE p = "cur" -> "pq"
    [] p = "pq" -> "py"
    [] OTHER -> "emit"

\* the report date of period p; NoDate is the null of an absent prior filing
reportDate(p) ==
  CASE p = "cur" -> getQuarterEndDate(currentFiling.quarter, currentFiling.year)
    [] p = "pq" -> IF IsFiling(priorQuarterFiling)
                   THEN getQuarterEndDate(priorQuarterFiling.quarter, priorQuarterFiling.year)
                   ELSE NoDate
    [] OTHER -> IF IsFiling(priorYearFiling)
                THEN getQuarterEndDate(priorYearFiling.quarter, priorYearFiling.year)
                ELSE NoDate

\* a fallback condition that does not look at the holding's ticker
needsFallback_ignoresTicker(p, h) ==
  /\ ~Truthy(a_avg[p])
  /\ reportDate(p) # NoDate

\* a fallback condition that does not look at the period's report date
needsFallback_ignoresDate(p, h) ==
  /\ ~Truthy(a_avg[p])
  /\ h.ticker # <<>>
  /\ h.ticker # NA

\* (!avg || avg === 0) && reportDate && holding.ticker && holding.ticker !== 'N/A'
needsFallback(p, h) ==
  /\ ~Truthy(a_avg[p])
  /\ reportDate(p) # NoDate
  /\ h.ticker # <<>>
  /\ h.ticker # NA

\* top of the loop body: the three average prices from the holdings data
A_RowBegin ==
  /\ a_pc = "rows"
  /\ a_phase = "begin"
  /\ a_i <= Len(currentFiling.holdings)
  /\ LET h == currentFiling.holdings[a_i]
     IN  a_avg' = [cur |-> avgPrice(h),
                   pq |-> priorAvgPrice(priorQuarterFiling, priorIndex(priorQuarterFiling, h)),
                   py |-> priorAvgPrice(priorYearFiling, priorIndex(priorYearFiling, h))]
  /\ a_enriched' = {}
  /\ a_phase' = "cur"
  /\ UNCHANGED <<filings, price_cache, filingId, a_pc, currentFiling,
                 priorQuarterFiling, priorYearFiling, pending, a_i, g, tableData,
                 comparisonData, summary, responses, calls>>
  /\ UNCHANGED notA

\* the fallback of period p applies: getEODPrice runs up to its cache read
A_CallEOD(p) ==
  /\ a_pc = "rows"
  /\ a_phase = p
  /\ g.pc = "idle"
  /\ needsFallback(p, currentFiling.holdings[a_i])
  /\ g' = [G_IDLE EXCEPT !.pc = "read",
                         !.ticker = normalizeTicker(currentFiling.holdings[a_i].ticker),
                         !.date = reportDate(p)]
  /\ calls' = calls \cup {"cacheRead"}
  /\ UNCHANGED <<filings, price_cache, filingId, a_pc, currentFiling,
                 priorQuarterFiling, priorYearFiling, pending, a_i, a_phase, a_avg, a_enriched,
                 tableData, comparisonData, summary, responses>>
  /\ UNCHANGED notA

\* the fallback of period p does not apply
A_SkipEOD(p) ==
  /\ a_pc = "rows"
  /\ a_phase = p
  /\ g.pc = "idle"
  /\ ~needsFallback(p, currentFiling.holdings[a_i])
  /\ a_phase' = nextPhase(p)
  /\ UNCHANGED <<filings, price_cache, filingId, a_pc, currentFiling,
                 priorQuarterFiling, priorYearFiling, pending, a_i, a_avg, a_enriched, g,
                 tableData, comparisonData, summary, responses, calls>>
  /\ UNCHANGED notA

cacheRow(ticker, date) ==
  {r \in price_cache : r.ticker = ticker /\ r.report_date = date}

\* cached?.price && cached.price > 0
cacheHit(rows) == \E r \in rows : Truthy(r.price) /\ IsPositive(r.price)

\* getEODPrice after its cache read: a positive cached price is returned,
\* anything else falls through to fetchYahooEODPrice
G_CacheRead ==
  /\ a_pc = "rows"
  /\ g.pc = "read"
  /\ \E o \in StoreOutcomes :
       LET rows == IF o = "ok" THEN cacheRow(g.ticker, g.date) ELSE {}
       IN  IF o = "throw"
           THEN /\ Throw("price_cache read failed")
                /\ g' = G_IDLE
                /\ UNCHANGED calls
           ELSE IF cacheHit(rows)
           THEN /\ g' = [g EXCEPT !.pc = "done", !.cached = "price",
                                  !.ret = (CHOOSE r \in rows : TRUE).price]
                /\ UNCHANGED <<a_pc, responses, calls>>
           ELSE /\ g' = [g EXCEPT !.pc = "fetch",
                                  !.cached = IF o = "error" THEN "error"
                                             ELSE IF rows = {} THEN "norow" ELSE "null"]
                /\ calls' = calls \cup {"yahoo"}
                /\ UNCHANGED <<a_pc, responses>>
  /\ UNCHANGED <<filings, price_cache, filingId, currentFiling, priorQuarterFiling,
                 priorYearFiling, pending, a_i, a_phase, a_avg, a_enriched, tableData,
                 comparisonData, summary>>
  /\ UNCHANGED notA

\* fetchYahooEODPrice answers; a positive price goes on to the upsert
G_FetchYahoo ==
  /\ a_pc = "rows"
  /\ g.pc = "fetch"
  /\ \E resp \in YahooResponses :
       LET yahooPrice == fetchYahooEODPrice(g.ticker, resp)
       IN  IF Truthy(yahooPrice) /\ IsPositive(yahooPrice)
           THEN /\ g' = [g EXCEPT !.pc = "upsert", !.yahooPrice = yahooPrice]
                /\ calls' = calls \cup {"cacheWrite"}
           ELSE /\ g' = [g EXCEPT !.pc = "done", !.ret = NullNum]
                /\ UNCHANGED calls
  /\ UNCHANGED <<filings, price_cache, filingId, a_pc, currentFiling,
                 priorQuarterFiling, priorYearFiling, pending, a_i, a_phase, a_avg, a_enriched,
                 tableData, comparisonData, summary, responses>>
  /\ UNCHANGED notA

\* an insert that adds a row beside the one already stored under the key
upsertPrice_appendRow(cache, ticker, date, price) ==
  cache \cup {[ticker |-> ticker, report_date |-> date, price |-> RoundNumeric2(price)]}

\* an insert that leaves a row already stored under the key as it is
upsertPrice_keepExisting(cache, ticker, date, price) ==
  IF \E r \in cache : r.ticker = ticker /\ r.report_date = date
  THEN cache
  ELSE cache \cup {[ticker |-> ticker, report_date |-> date, price |-> RoundNumeric2(price)]}

\* upsert(..., {onConflict: 'ticker,report_date'}) into price NUMERIC(10, 2)
upsertPrice(cache, ticker, date, price) ==
  {r \in cache : ~(r.ticker = ticker /\ r.report_date = date)}
  \cup {[ticker |-> ticker, report_date |-> date, price |-> RoundNumeric2(price)]}

\* the upsert answers and getEODPrice returns the fetched price
G_Upsert ==
  /\ a_pc = "rows"
  /\ g.pc = "upsert"
  /\ \E o \in StoreOutcomes :
       IF o = "throw"
       THEN /\ Throw("price_cache upsert failed")
            /\ g' = G_IDLE
            /\ UNCHANGED price_cache
       ELSE /\ price_cache' = IF o = "ok"
                              THEN upsertPrice(price_cache, g.ticker, g.date, g.yahooPrice)
                              ELSE price_cache
            /\ g' = [g EXCEPT !.pc = "done", !.ret = g.yahooPrice]
            /\ UNCHANGED <<a_pc, responses>>
  /\ UNCHANGED <<filings, filingId, currentFiling, priorQuarterFiling, priorYearFiling,
                 pending, a_i, a_phase, a_avg, a_enriched, tableData, comparisonData, summary,
                 calls>>
  /\ UNCHANGED notA

\* back in the loop body: if (eodPrice && eodPrice > 0) avg = eodPrice
A_AfterEOD ==
  /\ a_pc = "rows"
  /\ g.pc = "done"
  /\ a_avg' = IF Truthy(g.ret) /\ IsPositive(g.ret)
              THEN [a_avg EXCEPT ![a_phase] = g.ret] ELSE a_avg
  /\ a_enriched' = IF Truthy(g.ret) /\ IsPositive(g.ret)
                   THEN a_enriched \cup {a_phase} ELSE a_enriched
  /\ a_phase' = nextPhase(a_phase)
  /\ g' = G_IDLE
  /\ UNCHANGED <<filings, price_cache, filingId, a_pc, currentFiling,
                 priorQuarterFiling, priorYearFiling, pending, a_i, tableData,
                 comparisonData, summary, responses, calls>>
  /\ UNCHANGED notA

\* tableData.push(row)
A_EmitRow ==
  /\ a_pc = "rows"
  /\ a_phase = "emit"
  /\ tableData' = Append(tableData,
       makeRow(a_i, currentFiling.holdings[a_i], priorQuarterFiling, priorYearFiling,
               a_avg.cur, a_avg.pq, a_avg.py, a_enriched))
  /\ a_i' = a_i + 1
  /\ a_phase' = "begin"
  /\ UNCHANGED <<filings, price_cache, filingId, a_pc, currentFiling,
                 priorQuarterFiling, priorYearFiling, pending, a_avg, a_enriched, g,
                 comparisonData, summary, responses, calls>>
  /\ UNCHANGED notA

\* after the loop: total, percentOfPortfolio, sort, slice; the table returns
A_Finalize ==
  /\ a_pc = "rows"
  /\ a_phase = "begin"
  /\ a_i > Len(currentFiling.holdings)
  /\ comparisonData' = finishTable(tableData)
  /\ a_pc' = "summary"
  /\ UNCHANGED <<filings, price_cache, filingId, currentFiling, priorQuarterFiling,
                 priorYearFiling, pending, a_i, a_phase, a_avg, a_enriched, g, tableData,
                 summary, responses, calls>>
  /\ UNCHANGED notA

\* what generateAISummary returns for each way its call can end
summaryText(o) ==
  CASE o = "nokey" -> "AI summary unavailable - API key not configured"
    [] o = "non2xx" -> "AI summary unavailable - API error"
    [] o = "ok" -> "summary text"
    [] OTHER -> "AI summary unavailable"

\* generateAISummary returns and serve builds the success response
A_Summary ==
  /\ a_pc = "summary"
  /\ \E o \in {"nokey", "non2xx", "exception", "empty", "ok"} :
       /\ summary' = summaryText(o)
       /\ calls' = IF o = "nokey" THEN calls ELSE calls \cup {"ai"}
  /\ responses' = Append(responses,
       successResponse(currentFiling, priorQuarterFiling, priorYearFiling,
                       comparisonData, summary'))
  /\ a_pc' = "done"
  /\ UNCHANGED <<filings, price_cache, filingId, currentFiling, priorQuarterFiling,
                 priorYearFiling, pending, a_i, a_phase, a_avg, a_enriched, g, tableData,
                 comparisonData>>
  /\ UNCHANGED notA

ANext ==
  \/ A_LookupCurrent
  \/ A_LookupPriorQ
  \/ A_LookupPriorY
  \/ A_StartResolution
  \/ \E i \in 1..(TOP_N + LargeExtra) : A_ResolveTicker(i)
  \/ A_RowBegin
  \/ \E p \in {"cur", "pq", "py"} : A_CallEOD(p)
  \/ \E p \in {"cur", "pq", "py"} : A_SkipEOD(p)
  \/ G_CacheRead
  \/ G_FetchYahoo
  \/ G_Upsert
  \/ A_AfterEOD
  \/ A_EmitRow
  \/ A_Finalize
  \/ A_Summary

(***************************************************************************)
(* part_000: the CUSIP-based revision of the report function.  Its          *)
(* getEodPrice calls run concurrently under Promise.all, so each call is a  *)
(* frame of b_calls that moves from one await to the next.                  *)
(***************************************************************************)

\* ticker.replace(/\./g, '-').trim().toUpperCase()
normalizeTicker_part000(ticker) == toUpperCase(trim(replaceDots(ticker)))

\* retries: number = 3
RETRIES == 3

\* the mapping answers of OpenFIGI: data[0]?.data?.[0]?.ticker
FigiResponses ==
  {[kind |-> "non2xx", ticker |-> <<>>], [kind |-> "exception", ticker |-> <<>>],
   [kind |-> "ok", ticker |-> <<>>], [kind |-> "ok", ticker |-> T_BB]}

\* cusipToTicker: the mapped ticker, null on a non-2xx answer, an exception
\* or an answer without a ticker
cusipToTicker(cusip, resp) ==
  IF cusip = 0 THEN <<>>
  ELSE IF resp.kind = "ok" THEN resp.ticker
  ELSE <<>>

\* Math.round(x): the nearest integer, halves towards +Infinity
MathRound(x) == (2 * x.n + x.d) \div (2 * x.d)

\* Math.round(closePrice * 100) / 100; a null close multiplies to 0
roundedPrice(closePrice) ==
  IF IsNullNum(closePrice) THEN Int2Num(0)
  ELSE Num(MathRound(NumMul(closePrice, Int2Num(100))), 100)

\* a loop that never gives up: another attempt after every failed one
afterFailedAttempt_alwaysRetry(attempt) == "fetch"

\* when a fetch attempt has failed: the next attempt after the backoff, or
\* the null upsert once the loop is over; this variant returns without it
afterFailedAttempt_noNullUpsert(attempt) ==
  IF attempt < RETRIES THEN "fetch" ELSE "done"

\* when a fetch attempt has failed: the next attempt after the backoff, or
\* the null upsert once the loop is over
afterFailedAttempt(attempt) ==
  IF attempt < RETRIES THEN "fetch" ELSE "upsertNull"

\* store calls made outside any try block: an exception leaves getEodPrice
escapes_uncaught(o) == o = "throw"

\* the three store calls of getEodPrice are each inside a try whose catch
\* only logs: no outcome of the store leaves the function
escapes(o) == FALSE

\* a cache test that takes only a positive price for a hit
cacheHit_positiveOnly(rows) == \E r \in rows : Truthy(r.price) /\ IsPositive(r.price)

\* if (cachedPrice): any row found is a hit, whatever its price
cacheHit_part000(rows) == rows # {}

\* getEodPrice up to its first await.  failed counts the attempts that ended
\* without a close price, wrote names the upsert the call has issued, stored
\* tells whether the store accepted it and missedRow whether the cache read
\* failed while a row was stored under the key; none is a variable of the code
newCall(ticker, date) ==
  [ticker |-> ticker, normalizedTicker |-> normalizeTicker_part000(ticker),
   reportDate |-> date, pc |-> "read", attempt |-> 1,
   roundedPrice |-> NullNum, ret |-> NullNum, from |-> "none", failed |-> 0,
   wrote |-> "none", stored |-> FALSE, missedRow |-> FALSE]

\* key in requestMap, for a key `${ticker}-${date}`
hasKey(requestMap, ticker, date) ==
  \E k \in 1..Len(requestMap) :
    requestMap[k].ticker = ticker /\ requestMap[k].date = date

\* if (!(key in requestMap)) { requestMap[key] = priceRequests.length; ... }
addRequest(requestMap, ticker, date) ==
  IF ticker = <<>> \/ date = NoDate \/ hasKey(requestMap, ticker, date)
  THEN requestMap
  ELSE Append(requestMap, [ticker |-> ticker, date |-> date])

\* a prior ticker that falls back to the symbol the CUSIP mapping resolves
\* when the prior holding carries none
priorTicker_orResolved(prior, k) ==
  IF k = 0 THEN <<>>
  ELSE IF prior.holdings[k].ticker = <<>> THEN T_BB
  ELSE prior.holdings[k].ticker

priorTicker(prior, k) == IF k = 0 THEN <<>> ELSE prior.holdings[k].ticker

\* priorQ ? getQuarterEndDate(priorQ.quarter, priorQ.year) : ''
reportDateOf(f) == IF IsFiling(f) THEN getQuarterEndDate(f.quarter, f.year) ELSE NoDate

\* the loop that queues the price requests: for each holding its own key,
\* then the prior-quarter and the prior-year key, each at most once
RECURSIVE collectRequests(_, _, _, _, _)
collectRequests(current, priorQ, priorY, i, requestMap) ==
  IF i > Len(current.holdings) THEN requestMap
  ELSE LET holding == current.holdings[i]
           q == priorIndex(priorQ, holding)
           y == priorIndex(priorY, holding)
           m1 == addRequest(requestMap, holding.ticker, reportDateOf(current))
           m2 == addRequest(m1, priorTicker(priorQ, q), reportDateOf(priorQ))
           m3 == addRequest(m2, priorTicker(priorY, y), reportDateOf(priorY))
       IN  collectRequests(current, priorQ, priorY, i + 1, m3)

\* priceResults[key]: undefined for a key that was never requested
priceResult(requestMap, priceResults, ticker, date) ==
  IF hasKey(requestMap, ticker, date)
  THEN priceResults[CHOOSE k \in 1..Len(requestMap) :
                      requestMap[k].ticker = ticker /\ requestMap[k].date = date]
  ELSE NullNum

\* x ?? 0
orZero(x) == IF IsNullNum(x) THEN Int2Num(0) ELSE x

\* a && b ? a - b : 0
eodPriceChange(cur, prior) ==
  IF Truthy(cur) /\ Truthy(prior) THEN NumSub(cur, prior) ELSE Int2Num(0)

\* the row object literal of part_000; idx, the position of the holding in
\* current.holdings, is not in the code's row
makeRow_part000(idx, holding, priorQ, priorY, currentEodPrice, priorQEodPrice, priorYEodPrice) ==
  LET q == priorIndex(priorQ, holding)
      y == priorIndex(priorY, holding)
      currentAvgPrice == avgPrice(holding)
      priorQAvgPrice == priorAvgPrice(priorQ, q)
      priorYAvgPrice == priorAvgPrice(priorY, y)
  IN  [idx |-> idx,
       company |-> holding.company_name,
       ticker |-> IF holding.ticker = <<>> THEN NA ELSE holding.ticker,
       currentValue |-> holding.value_usd,
       currentPct |-> holding.percentage_of_portfolio,
       currentAvgPrice |-> currentAvgPrice,
       currentEodPrice |-> orZero(currentEodPrice),
       priorQValue |-> priorValue(priorQ, q),
       priorQPct |-> priorPct(priorQ, q),
       priorQAvgPrice |-> priorQAvgPrice,
       priorQEodPrice |-> orZero(priorQEodPrice),
       qoqValueChange |-> holding.value_usd - priorValue(priorQ, q),
       qoqPctChange |-> NumSub(holding.percentage_of_portfolio, priorPct(priorQ, q)),
       qoqAvgPriceChange |-> NumSub(currentAvgPrice, priorQAvgPrice),
       qoqEodPriceChange |-> eodPriceChange(currentEodPrice, priorQEodPrice),
       priorYValue |-> priorValue(priorY, y),
       priorYPct |-> priorPct(priorY, y),
       priorYAvgPrice |-> priorYAvgPrice,
       priorYEodPrice |-> orZero(priorYEodPrice),
       yoyValueChange |-> holding.value_usd - priorValue(priorY, y),
       yoyPctChange |-> NumSub(holding.percentage_of_portfolio, priorPct(priorY, y)),
       yoyAvgPriceChange |-> NumSub(currentAvgPrice, priorYAvgPrice),
       yoyEodPriceChange |-> eodPriceChange(currentEodPrice, priorYEodPrice)]

(***************************************************************************)
(* The inputs of the part_000 runs.                                         *)
(***************************************************************************)

T_aa == <<"a", "a">>

\* current holdings: one whose ticker has to be resolved from its CUSIP, and
\* two whose stored tickers differ only in case
CurrentHoldingChoices_part000 ==
  {holdingInput(1, <<>>, Int2Num(2), 4),
   holdingInput(1, T_AA, Int2Num(0), 2),
   holdingInput(2, T_aa, NullNum, 4)}

\* two holdings whose tickers are variants of one symbol, and two holdings
\* that both have to be resolved
PairedHoldings_part000 ==
  {<<holdingInput(1, T_AA, Int2Num(2), 4), holdingInput(2, T_aa, Int2Num(1), 2)>>,
   <<holdingInput(1, <<>>, Int2Num(2), 4), holdingInput(2, <<>>, Int2Num(1), 2)>>}

CurrentFilings_part000 ==
  {mkFiling("f1", "Q2", 2024, 3, hs) :
     hs \in (SeqsUpTo(CurrentHoldingChoices_part000, MaxHoldings) \ {<<>>})
            \cup PairedHoldings_part000}

\* prior filings: absent, with a holding that has no ticker, with one that has
PriorQFilings_part000 ==
  {mkFiling("f0", "Q1", 2024, 2, <<holdingInput(1, t, Int2Num(1), 4)>>) :
     t \in {<<>>, T_AA}}

PriorYFilings_part000 ==
  {mkFiling("fy", "Q2", 2023, 1, <<holdingInput(1, T_AA, Int2Num(0), 1)>>)}

\* the arguments of one call: current, priorQ and priorY
Arguments_part000 ==
  {<<c, NoFiling, NoFiling>> : c \in CurrentFilings_part000}
  \cup {<<c, q, NoFiling>> : c \in CurrentFilings_part000, q \in PriorQFilings_part000}
  \cup {<<c, NoFiling, y>> : c \in CurrentFilings_part000, y \in PriorYFilings_part000}

BInit ==
  /\ b_pc = "start"
  /\ \E args \in Arguments_part000 :
       /\ b_current = args[1]
       /\ b_priorQ = args[2]
       /\ b_priorY = args[3]
  /\ price_cache \in InitialCaches
  /\ b_pending = {}
  /\ b_requestMap = <<>>
  /\ b_calls = <<>>
  /\ b_priceResults = <<>>
  /\ b_table = <<>>

(***************************************************************************)
(* generateComparisonTable of part_000.                                     *)
(***************************************************************************)

\* a wait that ends with the first cusipToTicker call that settles
allResolved_firstSettled(remaining) == TRUE

\* await Promise.all(tickerResolutionPromises): every call has settled
allResolved(remaining) == remaining = {}

\* the second loop: every getEodPrice call runs to its cache read
queueRequests(current) ==
  LET requestMap == collectRequests(current, b_priorQ, b_priorY, 1, <<>>)
  IN  /\ b_requestMap' = requestMap
      /\ b_calls' = [k \in 1..Len(requestMap) |->
                       newCall(requestMap[k].ticker, requestMap[k].date)]
      /\ b_pc' = "pricing"

\* the first loop: a cusipToTicker call for every holding without a ticker
B_Start ==
  /\ b_pc = "start"
  /\ LET unresolved == {i \in 1..Len(b_current.holdings) :
                          b_current.holdings[i].ticker = <<>>
                          /\ b_current.holdings[i].cusip # 0}
     IN  IF unresolved = {}
         THEN /\ queueRequests(b_current)
              /\ UNCHANGED b_pending
         ELSE /\ b_pending' = unresolved
              /\ b_pc' = "resolving"
              /\ UNCHANGED <<b_requestMap, b_calls>>
  /\ UNCHANGED <<price_cache, b_current, b_priorQ, b_priorY, b_priceResults, b_table>>
  /\ UNCHANGED notB

\* one cusipToTicker call answers; after the last one the requests are queued
B_ResolveTicker(i) ==
  /\ b_pc = "resolving"
  /\ i \in b_pending
  /\ \E resp \in FigiResponses :
       LET ticker == cusipToTicker(b_current.holdings[i].cusip, resp)
           current == IF ticker # <<>>
                      THEN [b_current EXCEPT !.holdings[i].ticker = ticker]
                      ELSE b_current
       IN  /\ b_current' = current
           /\ b_pending' = b_pending \ {i}
           /\ IF allResolved(b_pending \ {i})
              THEN queueRequests(current)
              ELSE UNCHANGED <<b_pc, b_requestMap, b_calls>>
  /\ UNCHANGED <<price_cache, b_priorQ, b_priorY, b_priceResults, b_table>>
  /\ UNCHANGED notB

\* the cache read of call k answers: any row found is returned, price or
\* null; an error result or an exception counts as a miss
E_CacheRead(k) ==
  /\ b_pc = "pricing"
  /\ k \in 1..Len(b_calls)
  /\ b_calls[k].pc = "read"
  /\ \E o \in StoreOutcomes :
       LET c == b_calls[k]
           rows == IF o = "ok" THEN cacheRow(c.normalizedTicker, c.reportDate) ELSE {}
       IN  b_calls' = [b_calls EXCEPT ![k] =
             IF escapes(o) THEN [c EXCEPT !.pc = "raised"]
             ELSE IF cacheHit_part000(rows)
             THEN [c EXCEPT !.pc = "done", !.from = "cache",
                            !.ret = (CHOOSE r \in rows : TRUE).price]
             ELSE [c EXCEPT !.pc = "fetch",
                            !.missedRow = (o # "ok" /\ cacheRow(c.normalizedTicker,
                                                                c.reportDate) # {})]]
  /\ UNCHANGED <<price_cache, b_pc, b_current, b_priorQ, b_priorY, b_pending,
                 b_requestMap, b_priceResults, b_table>>
  /\ UNCHANGED notB

\* one fetch attempt of call k answers
E_Fetch(k) ==
  /\ b_pc = "pricing"
  /\ k \in 1..Len(b_calls)
  /\ b_calls[k].pc = "fetch"
  /\ \E resp \in YahooResponses :
       LET c == b_calls[k]
       IN  b_calls' = [b_calls EXCEPT ![k] =
             IF resp.kind = "closes"
             THEN [c EXCEPT !.pc = "upsert",
                            !.roundedPrice = roundedPrice(resp.lastClose)]
             ELSE [c EXCEPT !.pc = afterFailedAttempt(c.attempt),
                            !.attempt = IF c.attempt < RETRIES THEN c.attempt + 1
                                        ELSE c.attempt,
                            !.failed = c.failed + 1]]
  /\ UNCHANGED <<price_cache, b_pc, b_current, b_priorQ, b_priorY, b_pending,
                 b_requestMap, b_priceResults, b_table>>
  /\ UNCHANGED notB

\* the upsert of the fetched price answers and call k returns the price
E_Upsert(k) ==
  /\ b_pc = "pricing"
  /\ k \in 1..Len(b_calls)
  /\ b_calls[k].pc = "upsert"
  /\ \E o \in StoreOutcomes :
       LET c == b_calls[k]
       IN  /\ price_cache' = IF o = "ok"
                             THEN upsertPrice(price_cache, c.normalizedTicker,
                                              c.reportDate, c.roundedPrice)
                             ELSE price_cache
           /\ b_calls' = [b_calls EXCEPT ![k] =
                IF escapes(o) THEN [c EXCEPT !.pc = "raised", !.wrote = "price"]
                ELSE [c EXCEPT !.pc = "done", !.from = "yahoo", !.wrote = "price",
                               !.stored = (o = "ok"), !.ret = c.roundedPrice]]
  /\ UNCHANGED <<b_pc, b_current, b_priorQ, b_priorY, b_pending, b_requestMap,
                 b_priceResults, b_table>>
  /\ UNCHANGED notB

\* the upsert of null answers and call k returns null
E_UpsertNull(k) ==
  /\ b_pc = "pricing"
  /\ k \in 1..Len(b_calls)
  /\ b_calls[k].pc = "upsertNull"
  /\ \E o \in StoreOutcomes :
       LET c == b_calls[k]
       IN  /\ price_cache' = IF o = "ok"
                             THEN upsertPrice(price_cache, c.normalizedTicker,
                                              c.reportDate, NullNum)
                             ELSE price_cache
           /\ b_calls' = [b_calls EXCEPT ![k] =
                IF escapes(o) THEN [c EXCEPT !.pc = "raised", !.wrote = "null"]
                ELSE [c EXCEPT !.pc = "done", !.wrote = "null", !.stored = (o = "ok"),
                               !.ret = NullNum]]
  /\ UNCHANGED <<b_pc, b_current, b_priorQ, b_priorY, b_pending, b_requestMap,
                 b_priceResults, b_table>>
  /\ UNCHANGED notB

\* the rows of part_000 for holdings i.. of current
RECURSIVE rows_part000(_, _, _, _, _, _)
rows_part000(current, priorQ, priorY, requestMap, priceResults, i) ==
  IF i > Len(current.holdings) THEN <<>>
  ELSE LET holding == current.holdings[i]
           q == priorIndex(priorQ, holding)
           y == priorIndex(priorY, holding)
       IN  <<makeRow_part000(i, holding, priorQ, priorY,
               priceResult(requestMap, priceResults, holding.ticker, reportDateOf(current)),
               priceResult(requestMap, priceResults, priorTicker(priorQ, q),
                           reportDateOf(priorQ)),
               priceResult(requestMap, priceResults, priorTicker(priorY, y),
                           reportDateOf(priorY)))>>
           \o rows_part000(current, priorQ, priorY, requestMap, priceResults, i + 1)

\* Promise.all(priceRequests) resolves: the results are keyed, the rows are
\* built and the table is sorted
B_BuildTable ==
  /\ b_pc = "pricing"
  /\ \A k \in 1..Len(b_calls) : b_calls[k].pc = "done"
  /\ LET priceResults == [k \in 1..Len(b_calls) |-> b_calls[k].ret]
     IN  /\ b_priceResults' = priceResults
         /\ b_table' = sortByValueDesc(
              rows_part000(b_current, b_priorQ, b_priorY, b_requestMap, priceResults, 1),
              <<>>)
  /\ b_pc' = "done"
  /\ UNCHANGED <<price_cache, b_current, b_priorQ, b_priorY, b_pending, b_requestMap,
                 b_calls>>
  /\ UNCHANGED notB

MaxCalls == 3 * (MaxHoldings + 1)

BNext ==
  \/ B_Start
  \/ \E i \in 1..(MaxHoldings + 1) : B_ResolveTicker(i)
  \/ \E k \in 1..MaxCalls : E_CacheRead(k)
  \/ \E k \in 1..MaxCalls : E_Fetch(k)
  \/ \E k \in 1..MaxCalls : E_Upsert(k)
  \/ \E k \in 1..MaxCalls : E_UpsertNull(k)
  \/ B_BuildTable

(***************************************************************************)
(* SpecSwap: generateComparisonTable of index.ts as a function of its       *)
(* three filings and of what getEODPrice returns, applied to two filings    *)
(* in both roles.                                                           *)
(***************************************************************************)

\* the EOD fallback of one period: the price replaces a zero average price
\* when the period has a report date and the holding a ticker
fallbackAvg(avg, date, ticker, eodPrice) ==
  IF /\ ~Truthy(avg)
     /\ date # NoDate
     /\ ticker # <<>> /\ ticker # NA
     /\ Truthy(eodPrice) /\ IsPositive(eodPrice)
  THEN eodPrice
  ELSE avg

\* the periods of a holding whose average price the fallback replaces
enrichedPeriods(current, priorQ, priorY, holding, eodPrice) ==
  {p \in {"cur", "pq", "py"} :
     LET f == CASE p = "cur" -> current [] p = "pq" -> priorQ [] OTHER -> priorY
         avg == IF p = "cur" THEN avgPrice(holding)
                ELSE priorAvgPrice(f, priorIndex(f, holding))
     IN  fallbackAvg(avg, reportDateOf(f), holding.ticker, eodPrice) # avg}

\* the rows of the loop over current.holdings, from holding i on, when every
\* getEODPrice call of the run returns eodPrice
RECURSIVE comparisonRows(_, _, _, _, _)
comparisonRows(current, priorQ, priorY, eodPrice, i) ==
  IF i > Len(current.holdings) THEN <<>>
  ELSE LET holding == current.holdings[i]
           cur == fallbackAvg(avgPrice(holding), reportDateOf(current), holding.ticker,
                              eodPrice)
           pq == fallbackAvg(priorAvgPrice(priorQ, priorIndex(priorQ, holding)),
                             reportDateOf(priorQ), holding.ticker, eodPrice)
           py == fallbackAvg(priorAvgPrice(priorY, priorIndex(priorY, holding)),
                             reportDateOf(priorY), holding.ticker, eodPrice)
       IN  <<makeRow(i, holding, priorQ, priorY, cur, pq, py,
                     enrichedPeriods(current, priorQ, priorY, holding, eodPrice))>>
           \o comparisonRows(current, priorQ, priorY, eodPrice, i + 1)

comparisonTable(current, priorQ, priorY, eodPrice) ==
  finishTable(comparisonRows(current, priorQ, priorY, eodPrice, 1))

\* the holdings of a filing with cusips 1..n in the given order
swapHolding(cusip, choice) ==
  holdingInput(cusip, T_AA, Int2Num(choice[2]), choice[1])

SwapChoices == {1, 3} \X {0, 2}

SwapSizes == 1..(MaxHoldings + 1)

swapFiling(id, quarter, date, n, choices, reversed) ==
  mkFiling(id, quarter, 2024, date,
           [i \in 1..n |-> swapHolding(IF reversed THEN n + 1 - i ELSE i, choices[i])])

largeFiling(id, quarter, date, pattern) ==
  mkFiling(id, quarter, 2024, date,
           [i \in 1..(TOP_N + LargeExtra) |-> largeHolding(i, pattern)])

\* pairs of filings with the same cusips, in the same and in opposite order,
\* and one pair of portfolios larger than the table
SwapPairs ==
  UNION {{<<swapFiling("fa", "Q2", 3, n, ca, FALSE), swapFiling("fb", "Q1", 2, n, cb, rev)>> :
            ca \in [1..n -> SwapChoices], cb \in [1..n -> SwapChoices], rev \in BOOLEAN} :
         n \in SwapSizes}
  \cup {<<largeFiling("fa", "Q2", 3, "asc"), largeFiling("fb", "Q1", 2, "mixed")>>}

\* what every getEODPrice call of a run returns
EodPrices == {NullNum, PRICE_CACHED}

SwapInit ==
  /\ sw_done = {}
  /\ \E pair \in SwapPairs :
       /\ sw_A = pair[1]
       /\ sw_B = pair[2]
  /\ sw_tableAB = <<>>
  /\ sw_tableBA = <<>>

\* generateComparisonTable(A, B, null, supabase)
Swap_RunAB ==
  /\ "AB" \notin sw_done
  /\ \E eodPrice \in EodPrices :
       sw_tableAB' = comparisonTable(sw_A, sw_B, NoFiling, eodPrice)
  /\ sw_done' = sw_done \cup {"AB"}
  /\ UNCHANGED <<sw_A, sw_B, sw_tableBA>>
  /\ UNCHANGED notSwap

\* generateComparisonTable(B, A, null, supabase)
Swap_RunBA ==
  /\ "BA" \notin sw_done
  /\ \E eodPrice \in EodPrices :
       sw_tableBA' = comparisonTable(sw_B, sw_A, NoFiling, eodPrice)
  /\ sw_done' = sw_done \cup {"BA"}
  /\ UNCHANGED <<sw_A, sw_B, sw_tableAB>>
  /\ UNCHANGED notSwap

SwapNext == Swap_RunAB \/ Swap_RunBA

FindIdle ==
  /\ f_pc = "unused" /\ f_issuerName = <<>>
  /\ f_res = [kind |-> "none", quotes |-> <<>>]
  /\ f_result = [ticker |-> <<>>, score |-> NullNum]

MailIdle ==
  /\ c_pc = "unused" /\ c_filings = <<>> /\ c_i = 0 /\ c_results = <<>>
  /\ c_response = <<>>
  /\ e_pc = "unused" /\ e_env = FALSE /\ e_filingId = 0 /\ e_recipient = ""
  /\ e_smtp = "none" /\ e_errorMessage = "" /\ e_response = <<>>
  /\ email_logs = <<>>

IngestIdle ==
  /\ db_filings = {} /\ db_holdings = {}
  /\ i_pc = "unused" /\ i_run = 0 /\ i_recentFilings = <<>> /\ i_k = 0
  /\ i_holdings = {} /\ i_filingRecord = 0 /\ i_processedFilings = <<>>
  /\ i_failed = {}

DashIdle ==
  /\ d_pc = "unused" /\ d_filings = <<>> /\ d_selectedFiling = <<>>
  /\ d_reportData = <<>> /\ d_isLoading = FALSE /\ d_inflight = {} /\ d_loads = 0

RestIdle == FindIdle /\ MailIdle /\ IngestIdle /\ DashIdle

\* every group of restVars but the one named is idle
OthersIdle(own) ==
  /\ IF own = "find" THEN TRUE ELSE FindIdle
  /\ IF own = "mail" THEN TRUE ELSE MailIdle
  /\ IF own = "ingest" THEN TRUE ELSE IngestIdle
  /\ IF own = "dash" THEN TRUE ELSE DashIdle

NormIdle ==
  /\ nt_pc = "unused" /\ nt_x = <<>> /\ nt_y = NotComputed /\ nt_z = NotComputed

AIdle ==
  /\ filings = {} /\ filingId = "" /\ a_pc = "unused"
  /\ currentFiling = NoFiling /\ priorQuarterFiling = NoFiling
  /\ priorYearFiling = NoFiling /\ pending = {} /\ a_i = 0 /\ a_phase = "begin"
  /\ a_avg = [cur |-> Int2Num(0), pq |-> Int2Num(0), py |-> Int2Num(0)]
  /\ a_enriched = {} /\ g = G_IDLE /\ tableData = <<>> /\ comparisonData = <<>> /\ summary = ""
  /\ responses = <<>> /\ calls = {}

BIdle ==
  /\ b_pc = "unused" /\ b_current = NoFiling /\ b_priorQ = NoFiling
  /\ b_priorY = NoFiling /\ b_pending = {} /\ b_requestMap = <<>>
  /\ b_calls = <<>> /\ b_priceResults = <<>> /\ b_table = <<>>

SwapIdle ==
  /\ sw_done = {} /\ sw_A = NoFiling /\ sw_B = NoFiling
  /\ sw_tableAB = <<>> /\ sw_tableBA = <<>>

InitNorm == NormInit /\ price_cache = {} /\ AIdle /\ BIdle /\ SwapIdle /\ RestIdle

InitB == BInit /\ NormIdle /\ AIdle /\ SwapIdle /\ RestIdle

InitA == AInit /\ NormIdle /\ BIdle /\ SwapIdle /\ RestIdle

InitSwap == SwapInit /\ price_cache = {} /\ NormIdle /\ AIdle /\ BIdle /\ RestIdle

SpecNorm == InitNorm /\ [][NormNext]_vars

SpecA == InitA /\ [][ANext]_vars

SpecB == InitB /\ [][BNext]_vars

SpecSwap == InitSwap /\ [][SwapNext]_vars

A_TableReturned ==
  \/ a_pc = "summary"
  \/ a_pc = "done" /\ Len(responses) = 1 /\ responses[1].success

A_Holdings == currentFiling.holdings

\* comparisonData holds a row made from holding i, carrying its company name
A_HasRowFor(i) ==
  \E j \in 1..Len(comparisonData) :
    /\ comparisonData[j].idx = i
    /\ comparisonData[j].company = A_Holdings[i].company_name

\* C1, as claimed: whatever the number of holdings, every holding of
\* current.holdings has a row with its company name in comparisonData
C1_AsClaimed ==
  A_TableReturned => \A i \in 1..Len(A_Holdings) : A_HasRowFor(i)

\* C1, amended: comparisonData has min(n, 20) rows, each made from a distinct
\* holding and carrying its company name; every holding has a row when there
\* are at most 20, and a holding without a row has at least 20 other holdings
\* of value not smaller than its own
C1_RowPerHoldingUpTo20 ==
  A_TableReturned =>
    /\ Len(comparisonData) = Min(Len(A_Holdings), TOP_N)
    /\ \A j, k \in 1..Len(comparisonData) :
         comparisonData[j].idx = comparisonData[k].idx => j = k
    /\ \A j \in 1..Len(comparisonData) :
         /\ comparisonData[j].idx \in 1..Len(A_Holdings)
         /\ comparisonData[j].company = A_Holdings[comparisonData[j].idx].company_name
    /\ \A i \in 1..Len(A_Holdings) :
         \/ A_HasRowFor(i)
         \/ Cardinality({k \in 1..Len(A_Holdings) :
                           k # i /\ A_Holdings[k].value_usd >= A_Holdings[i].value_usd})
              >= TOP_N

C1_Witness ==
  /\ A_TableReturned
  /\ Len(A_Holdings) > TOP_N
  /\ Len(comparisonData) = TOP_N
  /\ \E i \in 1..Len(A_Holdings) : ~A_HasRowFor(i)

\* C3: after a cache read that found a row with a null price, getEODPrice
\* returns null and does not go on to fetchYahooEODPrice
C3_CachedNullIsFinal ==
  g.cached = "null" =>
    /\ g.pc \notin {"fetch", "upsert"}
    /\ g.pc = "done" => IsNullNum(g.ret)

\* C5: once the current filing was found, the handler ends with exactly one
\* response, the success payload with the three filings and comparisonData
C5_AlwaysReportWhenFilingExists ==
  (a_pc = "done" /\ IsFiling(currentFiling)) =>
    /\ Len(responses) = 1
    /\ responses[1].success
    /\ responses[1].status = 200
    /\ responses[1].currentFiling = currentFiling
    /\ responses[1].priorQuarterFiling = priorQuarterFiling
    /\ responses[1].priorYearFiling = priorYearFiling
    /\ responses[1].comparisonData = comparisonData

\* C6: when the lookup of the current filing gives an error or no row, the
\* handler answers once, with status 500 and an error message, and makes no
\* ticker search, price_cache read or write, market-data call or AI call
C6_MissingFilingFailsOnce ==
  /\ Len(responses) <= 1
  /\ ~IsFiling(currentFiling) =>
       /\ calls = {}
       /\ tableData = <<>>
       /\ a_pc \in {"lookupCurrent", "done"}
       /\ a_pc = "done" =>
            /\ Len(responses) = 1
            /\ responses[1].status = 500
            /\ ~responses[1].success
            /\ responses[1].error = "Filing not found"

C6_Witness ==
  /\ a_pc = "done"
  /\ ~IsFiling(currentFiling)
  /\ filingId = "zz"
  /\ Len(responses) = 1
  /\ responses[1].status = 500

\* value_usd / shares, 0 when shares is 0 or absent
A_PlainAvgPrice(h) ==
  IF IsNullNum(h.shares) \/ h.shares.n = 0 THEN Int2Num(0)
  ELSE Num(h.value_usd * h.shares.d, h.shares.n)

\* C7: in every row currentAvgPrice is 0 when shares is 0 or absent and
\* value_usd / shares otherwise, whatever the ticker and the EOD prices
C7_AvgPriceIgnoresEOD ==
  \A j \in 1..Len(tableData) :
    tableData[j].currentAvgPrice = A_PlainAvgPrice(A_Holdings[tableData[j].idx])

A_NoMatch(prior, h) ==
  ~\E k \in 1..Len(prior.holdings) : prior.holdings[k].cusip = h.cusip

\* C8: in every row qoqValueChange = currentValue - priorQValue, and when the
\* prior-quarter filing has no holding with the row's cusip, priorQValue = 0
\* and, unless an EOD price replaced it, priorQAvgPrice = 0; likewise for the
\* prior year
C8_ValueChangeAndNoMatch ==
  \A j \in 1..Len(tableData) :
    LET r == tableData[j]
        h == A_Holdings[r.idx]
    IN  /\ r.qoqValueChange = r.currentValue - r.priorQValue
        /\ r.yoyValueChange = r.currentValue - r.priorYValue
        /\ r.currentValue = h.value_usd
        /\ A_NoMatch(priorQuarterFiling, h) =>
             /\ r.priorQValue = 0
             /\ r.qoqValueChange = h.value_usd
             /\ "pq" \notin r.enriched => r.priorQAvgPrice = Int2Num(0)
        /\ A_NoMatch(priorYearFiling, h) =>
             /\ r.priorYValue = 0
             /\ r.yoyValueChange = h.value_usd
             /\ "py" \notin r.enriched => r.priorYAvgPrice = Int2Num(0)

C8_Witness ==
  \E j \in 1..Len(tableData) :
    /\ IsFiling(priorQuarterFiling)
    /\ priorQuarterFiling.holdings # <<>>
    /\ A_NoMatch(priorQuarterFiling, A_Holdings[tableData[j].idx])
    /\ tableData[j].priorQValue = 0
    /\ tableData[j].qoqValueChange = tableData[j].currentValue
    /\ tableData[j].priorQAvgPrice = Int2Num(0)

\* C9: the returned rows are in non-increasing currentValue order, and rows
\* of equal currentValue are in the order of their holdings in current.holdings
C9_SortedStable ==
  A_TableReturned =>
    \A j, k \in 1..Len(comparisonData) :
      j < k =>
        /\ comparisonData[j].currentValue >= comparisonData[k].currentValue
        /\ comparisonData[j].currentValue = comparisonData[k].currentValue
             => comparisonData[j].idx < comparisonData[k].idx

C9_Witness ==
  /\ A_TableReturned
  /\ \E j, k \in 1..Len(comparisonData) :
       /\ j < k
       /\ comparisonData[j].currentValue = comparisonData[k].currentValue
       /\ comparisonData[j].idx < comparisonData[k].idx
  /\ \E j, k \in 1..Len(comparisonData) :
       /\ j < k
       /\ comparisonData[j].currentValue > comparisonData[k].currentValue
       /\ comparisonData[j].idx > comparisonData[k].idx


(***************************************************************************)
(* Properties of part_000 (SpecB).                                          *)
(***************************************************************************)

\* what getEodPrice returned for the holding's own key and for the key of
\* the matched holding of a prior filing; null if the key was never requested
B_CurrentEod(holding) ==
  priceResult(b_requestMap, b_priceResults, holding.ticker, reportDateOf(b_current))

B_PriorEod(prior, holding) ==
  priceResult(b_requestMap, b_priceResults,
              priorTicker(prior, priorIndex(prior, holding)), reportDateOf(prior))

\* C2 as the specification states it: in the table of part_000 a row whose
\* current or prior-quarter EOD price is null or was never obtained has a
\* null qoqEodPriceChange, and likewise the year-over-year delta; the delta is
\* never the number 0 standing in for "unknown"
C2_NullDeltaWhenPriceMissing ==
  b_pc = "done" =>
    \A r \in 1..Len(b_table) :
      LET row == b_table[r]
          holding == b_current.holdings[row.idx]
          cur == B_CurrentEod(holding)
      IN  /\ (IsNullNum(cur) \/ IsNullNum(B_PriorEod(b_priorQ, holding)))
               => IsNullNum(row.qoqEodPriceChange)
          /\ (IsNullNum(cur) \/ IsNullNum(B_PriorEod(b_priorY, holding)))
               => IsNullNum(row.yoyEodPriceChange)

\* a call of getEodPrice all of whose fetch attempts have failed
B_AllAttemptsFailed(c) == c.failed = RETRIES

\* C4: a getEodPrice call of part_000 that missed the cache and whose every
\* fetch attempt ended in a non-2xx answer, an exception or an answer without
\* close data goes on to the upsert of (normalizedTicker, reportDate, null)
\* and, whatever that upsert answers, returns null; the failures end the call
\* in a return, never in an exception, and the table is built from it
C4_AllFailedCachesNullReturnsNull ==
  /\ \A k \in 1..Len(b_calls) :
       LET c == b_calls[k]
       IN  /\ B_AllAttemptsFailed(c) =>
                /\ c.pc \in {"upsertNull", "done"}
                /\ c.pc = "done" =>
                     /\ IsNullNum(c.ret)
                     /\ c.wrote = "null"
                     /\ c.from = "none"
           /\ c.failed > 0 /\ ~B_AllAttemptsFailed(c) => c.pc \in {"fetch", "upsert", "done"}
           /\ c.wrote = "null" => B_AllAttemptsFailed(c)
  /\ b_pc = "done" =>
       \A k \in 1..Len(b_calls) :
         B_AllAttemptsFailed(b_calls[k]) => IsNullNum(b_priceResults[k])

\* a call with three failed attempts has returned, its null upsert was
\* refused by the store, and the table has been built
C4_Witness ==
  /\ b_pc = "done"
  /\ \E k \in 1..Len(b_calls) :
       /\ B_AllAttemptsFailed(b_calls[k])
       /\ b_calls[k].wrote = "null"
       /\ IsNullNum(b_calls[k].ret)
       /\ cacheRow(b_calls[k].normalizedTicker, b_calls[k].reportDate) = {}


\* the rows a cache holds under a key
B_RowsIn(cache, ticker, date) ==
  {r \in cache : r.ticker = ticker /\ r.report_date = date}

\* a step in which the store accepts the upsert of call k
B_UpsertAccepted(k) ==
  /\ b_calls[k].pc \in {"upsert", "upsertNull"}
  /\ b_calls'[k].pc = "done"
  /\ b_calls'[k].stored

\* a step in which call k returns from its cache read
B_ReturnsFromCache(k) ==
  /\ b_calls[k].pc = "read"
  /\ b_calls'[k].pc = "done"

\* C11: the price cache round trip of part_000.  When the store accepts an
\* upsert of getEodPrice, a rounded price or null, the cache then holds under
\* (normalizedTicker, reportDate) exactly one row and its price is the value
\* written; and a getEodPrice call whose cache read finds a row returns
\* exactly the price of that row, null included, without fetching
C11_CacheRoundTrip ==
  [][\A k \in 1..Len(b_calls) :
       LET c == b_calls[k]
       IN  /\ B_UpsertAccepted(k) =>
                B_RowsIn(price_cache', c.normalizedTicker, c.reportDate)
                  = {[ticker |-> c.normalizedTicker, report_date |-> c.reportDate,
                      price |-> b_calls'[k].ret]}
           /\ B_ReturnsFromCache(k) =>
                /\ b_calls'[k].from = "cache"
                /\ b_calls'[k].failed = 0
                /\ B_RowsIn(price_cache, c.normalizedTicker, c.reportDate)
                     = {[ticker |-> c.normalizedTicker, report_date |-> c.reportDate,
                         price |-> b_calls'[k].ret]}]_vars

\* one call has cached null under a key, the store accepted it, and another
\* call for the same key has returned null from the row it read
C11_Witness ==
  \E j, k \in 1..Len(b_calls) :
    /\ j # k
    /\ b_calls[j].normalizedTicker = b_calls[k].normalizedTicker
    /\ b_calls[j].reportDate = b_calls[k].reportDate
    /\ b_calls[j].wrote = "null" /\ b_calls[j].stored
    /\ b_calls[k].from = "cache" /\ IsNullNum(b_calls[k].ret)
    /\ B_RowsIn(price_cache, b_calls[k].normalizedTicker, b_calls[k].reportDate)
         = {[ticker |-> b_calls[k].normalizedTicker,
             report_date |-> b_calls[k].reportDate, price |-> NullNum]}


(***************************************************************************)
(* Properties of the swap of current and prior filing (SpecSwap).           *)
(***************************************************************************)

NumNeg(x) == Num(-x.n, x.d)

\* C12: for two filings with the same cusips, each cusip once per filing,
\* the qoqValueChange and qoqPctChange of a cusip's row with A as current
\* and B as prior quarter are the negations of those of its row with B as
\* current and A as prior quarter, for every cusip that has a row in both
\* tables and whatever the EOD prices of the two runs
C12_SwapNegatesDeltas ==
  sw_done = {"AB", "BA"} =>
    \A r \in 1..Len(sw_tableAB), t \in 1..Len(sw_tableBA) :
      LET rowAB == sw_tableAB[r]
          rowBA == sw_tableBA[t]
      IN  sw_A.holdings[rowAB.idx].cusip = sw_B.holdings[rowBA.idx].cusip =>
            /\ rowAB.qoqValueChange = -rowBA.qoqValueChange
            /\ rowAB.qoqPctChange = NumNeg(rowBA.qoqPctChange)

\* both tables are built, the filings list their cusips in opposite order,
\* and a cusip has a row in both with a value and a percentage change
C12_Witness ==
  /\ sw_done = {"AB", "BA"}
  /\ Len(sw_A.holdings) > 1
  /\ sw_A.holdings[1].cusip # sw_B.holdings[1].cusip
  /\ \E r \in 1..Len(sw_tableAB), t \in 1..Len(sw_tableBA) :
       /\ sw_A.holdings[sw_tableAB[r].idx].cusip = sw_B.holdings[sw_tableBA[t].idx].cusip
       /\ sw_tableAB[r].qoqValueChange > 0
       /\ sw_tableAB[r].qoqPctChange.n # 0
       /\ sw_tableAB[r].enriched # {}


(***************************************************************************)
(* Further properties of generate-portfolio-report/index.ts (SpecA).        *)
(***************************************************************************)

\* the filing of period p as the handler passes it to generateComparisonTable
A_PeriodFiling(p) ==
  CASE p = "cur" -> currentFiling
    [] p = "pq" -> priorQuarterFiling
    [] OTHER -> priorYearFiling

\* C13: with priorQ and/or priorY absent the table is still built and
\* returned with a row per current holding (up to the 20 of the slice); in
\* every row the absent period's value and percentage are 0 and its value
\* and percentage deltas are the current value and percentage; and no
\* getEODPrice call, so no price_cache access and no market-data request, is
\* ever in progress for an absent period
C13_AbsentPriorDegrades ==
  /\ \A j \in 1..Len(tableData) :
       LET r == tableData[j]
           h == A_Holdings[r.idx]
       IN  /\ ~IsFiling(priorQuarterFiling) =>
                /\ r.priorQValue = 0 /\ r.priorQPct = Int2Num(0)
                /\ r.qoqValueChange = h.value_usd
                /\ r.qoqPctChange = h.percentage_of_portfolio
                /\ "pq" \notin r.enriched
           /\ ~IsFiling(priorYearFiling) =>
                /\ r.priorYValue = 0 /\ r.priorYPct = Int2Num(0)
                /\ r.yoyValueChange = h.value_usd
                /\ r.yoyPctChange = h.percentage_of_portfolio
                /\ "py" \notin r.enriched
  /\ g.pc # "idle" => g.date # NoDate /\ IsFiling(A_PeriodFiling(a_phase))
  /\ A_TableReturned => Len(comparisonData) = Min(Len(A_Holdings), TOP_N)
  /\ \A k \in 1..Len(responses) :
       ~responses[k].success =>
         \/ ~IsFiling(currentFiling)
         \/ responses[k].error \in {"price_cache read failed", "price_cache upsert failed"}

\* the table is returned for a filing without prior quarter and prior year
\* whose holding has a ticker and no shares, so that the fallback of the
\* current period was due and those of the absent periods were not
C13_Witness ==
  /\ A_TableReturned
  /\ ~IsFiling(priorQuarterFiling) /\ ~IsFiling(priorYearFiling)
  /\ \E j \in 1..Len(comparisonData) :
       LET r == comparisonData[j]
       IN  /\ A_Holdings[r.idx].ticker # <<>>
           /\ ~IsPositive(A_Holdings[r.idx].shares)
           /\ r.enriched = {"cur"}
           /\ r.priorQAvgPrice = Int2Num(0) /\ r.priorYAvgPrice = Int2Num(0)
           /\ r.qoqValueChange = r.currentValue /\ r.currentValue > 0
           /\ r.yoyPctChange = r.currentPct


\* the table loop has started, so every findTickerByName call has answered
A_ResolutionOver == a_pc \in {"rows", "summary"} \/ A_TableReturned

\* the average price of period p that the holdings data alone give
A_OwnAvg(p, h) ==
  IF p = "cur" THEN avgPrice(h)
  ELSE priorAvgPrice(A_PeriodFiling(p), priorIndex(A_PeriodFiling(p), h))

A_RowAvg(p, r) ==
  CASE p = "cur" -> r.currentAvgPrice
    [] p = "pq" -> r.priorQAvgPrice
    [] OTHER -> r.priorYAvgPrice

C15_OneRequestPerKey ==
  \A j, k \in 1..Len(b_calls) :
    (/\ b_calls[j].normalizedTicker = b_calls[k].normalizedTicker
     /\ b_calls[j].reportDate = b_calls[k].reportDate) => j = k


\* C16: while a cusipToTicker call of the batch is outstanding no getEodPrice
\* call exists and no price key has been computed; once the calls exist no
\* resolution is outstanding and the keys are those of the tickers as they
\* stand after resolution, one call per key in the order of the keys
C16_PricesAfterResolution ==
  /\ b_pending # {} => b_pc = "resolving"
  /\ b_pc \in {"start", "resolving"} => b_calls = <<>> /\ b_requestMap = <<>>
  /\ b_pc \in {"pricing", "done"} =>
       /\ b_pending = {}
       /\ b_requestMap = collectRequests(b_current, b_priorQ, b_priorY, 1, <<>>)
       /\ Len(b_calls) = Len(b_requestMap)
       /\ \A k \in 1..Len(b_calls) :
            /\ b_calls[k].ticker = b_requestMap[k].ticker
            /\ b_calls[k].reportDate = b_requestMap[k].date

\* two holdings had to be resolved, one got a ticker and the other did not,
\* and the only getEodPrice call is the one for the resolved ticker
C16_Witness ==
  /\ b_pc = "pricing"
  /\ Len(b_current.holdings) = 2
  /\ b_current.holdings[1].ticker = <<>>
  /\ b_current.holdings[2].ticker = T_BB
  /\ Len(b_calls) = 1
  /\ b_calls[1].ticker = T_BB
  /\ b_calls[1].pc = "read"


\* at most one row under every key
B_UniqueKeys ==
  \A r1, r2 \in price_cache :
    (r1.ticker = r2.ticker /\ r1.report_date = r2.report_date) => r1 = r2

\* every row is one the cache started with or holds the value that a call
\* for its key wrote and the store accepted
B_RowsWereWritten ==
  \A r \in price_cache :
    \/ r \in UNION InitialCaches
    \/ \E k \in 1..Len(b_calls) :
         /\ b_calls[k].normalizedTicker = r.ticker
         /\ b_calls[k].reportDate = r.report_date
         /\ b_calls[k].stored
         /\ b_calls[k].ret = r.price

\* a step that changes price_cache is an accepted upsert of one call; it
\* leaves the rows of the other keys alone and makes the row of its key the
\* value it writes
B_WriteStep ==
  price_cache' # price_cache =>
    \E k \in 1..Len(b_calls) :
      LET c == b_calls[k]
          others(cache) == cache \ B_RowsIn(cache, c.normalizedTicker, c.reportDate)
      IN  /\ B_UpsertAccepted(k)
          /\ others(price_cache') = others(price_cache)
          /\ \E r \in B_RowsIn(price_cache', c.normalizedTicker, c.reportDate) :
               r.price = IF c.pc = "upsert" THEN c.roundedPrice ELSE NullNum

\* C17: for every interleaving of the getEodPrice calls of part_000, two of
\* which may work on the same (ticker, reportDate), price_cache holds at most
\* one row per (ticker, report_date) in every reachable state, the price of
\* a row is a value the cache started with or one written by a call for that
\* key, and every write replaces exactly the row of its key (last write wins)
C17_OneRowPerKeyLastWriteWins ==
  /\ [](B_UniqueKeys /\ B_RowsWereWritten)
  /\ [][B_WriteStep]_vars

\* two calls for the same key have both written, a price and a null, and
\* the single row of the key holds the value of one of them
C17_Witness ==
  \E j, k \in 1..Len(b_calls) :
    /\ j # k
    /\ b_calls[j].normalizedTicker = b_calls[k].normalizedTicker
    /\ b_calls[j].reportDate = b_calls[k].reportDate
    /\ b_calls[j].stored /\ b_calls[j].wrote = "price"
    /\ b_calls[k].stored /\ b_calls[k].wrote = "null"
    /\ B_RowsIn(price_cache, b_calls[k].normalizedTicker, b_calls[k].reportDate)
         = {[ticker |-> b_calls[k].normalizedTicker,
             report_date |-> b_calls[k].reportDate, price |-> b_calls[j].ret]}


\* the step of call k from its cache read: it returns the row it found or
\* goes on to its first fetch attempt
B_ReadStep(k) ==
  b_calls[k].pc = "read" =>
    \/ b_calls'[k] = b_calls[k]
    \/ b_calls'[k].pc = "done" /\ b_calls'[k].from = "cache"
    \/ /\ b_calls'[k].pc = "fetch"
       /\ b_calls'[k].attempt = 1 /\ b_calls'[k].failed = 0

\* the step of call k from the upsert of a fetched price: it returns the
\* rounded price whether or not the store accepted the row
B_PriceWriteStep(k) ==
  b_calls[k].pc = "upsert" =>
    \/ b_calls'[k] = b_calls[k]
    \/ /\ b_calls'[k].pc = "done"
       /\ b_calls'[k].ret = b_calls[k].roundedPrice
       /\ b_calls'[k].from = "yahoo"

\* C18: no outcome of the price_cache store, an exception included, leaves
\* getEodPrice of part_000 or changes what it returns: from the cache read
\* a call either returns the row found or, on a miss, an error or an
\* exception, starts the live fetch; from the upsert of a fetched price it
\* returns the rounded price also when the write failed; no call ever ends
\* in an exception
C18_StoreFailuresAreSwallowed ==
  /\ [](\A k \in 1..Len(b_calls) :
          /\ b_calls[k].pc \in {"read", "fetch", "upsert", "upsertNull", "done"}
          /\ (b_calls[k].pc = "done" /\ b_calls[k].wrote = "price") =>
               b_calls[k].ret = b_calls[k].roundedPrice)
  /\ [][\A k \in 1..Len(b_calls) : B_ReadStep(k) /\ B_PriceWriteStep(k)]_vars

\* the only call of the run went to the live fetch although the cache held
\* a row for its key, so its read failed; it fetched a price, the write
\* failed too, and it has returned the fetched price
C18_Witness ==
  /\ Len(b_calls) = 1
  /\ b_calls[1].pc = "done"
  /\ b_calls[1].wrote = "price" /\ ~b_calls[1].stored
  /\ b_calls[1].ret = roundedPrice(CLOSE_LIVE)
  /\ B_RowsIn(price_cache, b_calls[1].normalizedTicker, b_calls[1].reportDate)
       = {[ticker |-> b_calls[1].normalizedTicker,
           report_date |-> b_calls[1].reportDate, price |-> PRICE_CACHED]}


(***************************************************************************)
(* Properties of the tail of generateComparisonTable of index.ts (SpecA).   *)
(***************************************************************************)

\* C19 as the specification states it: when the table is cut to the top 20
\* rows, the percentOfPortfolio of each returned row is its currentValue as
\* a percentage of the total currentValue of the returned rows
C19_PercentOfDisplayedRows ==
  (A_TableReturned /\ Len(A_Holdings) > TOP_N) =>
    \A j \in 1..Len(comparisonData) :
      comparisonData[j].percentOfPortfolio =
        Num(comparisonData[j].currentValue * 100, sumCurrentValue(comparisonData))


\* the holdings of the requested filing as the store holds them
A_StoredHoldings ==
  (CHOOSE f \in filings : f.id = filingId).holdings

\* C20: a holding of current.holdings whose ticker is already set never has
\* a findTickerByName call made for it, and its ticker stays as stored
\* throughout the call and in its row
C20_PresetTickerUntouched ==
  IsFiling(currentFiling) =>
    /\ Len(A_Holdings) = Len(A_StoredHoldings)
    /\ \A i \in 1..Len(A_Holdings) :
         A_StoredHoldings[i].ticker # <<>> =>
           /\ i \notin pending
           /\ A_Holdings[i].ticker = A_StoredHoldings[i].ticker
           /\ \A j \in 1..Len(tableData) :
                tableData[j].idx = i => tableData[j].ticker = A_StoredHoldings[i].ticker
    /\ "search" \in calls => \E i \in 1..Len(A_Holdings) : A_StoredHoldings[i].ticker = <<>>
    /\ pending # {} => "search" \in calls

\* the table is returned for two holdings: the first had no ticker and was
\* resolved, the second had one and kept it
C20_Witness ==
  /\ A_TableReturned
  /\ Len(A_Holdings) = 2
  /\ A_StoredHoldings[1].ticker = <<>> /\ A_Holdings[1].ticker = T_BB
  /\ A_StoredHoldings[2].ticker = T_AA /\ A_Holdings[2].ticker = T_AA
  /\ \E j \in 1..Len(comparisonData) :
       comparisonData[j].idx = 2 /\ comparisonData[j].ticker = T_AA

(***************************************************************************)
(* getEodPrice of part_000 on its own: calls arrive one after another or    *)
(* overlap, each a frame of b_calls.  Every await of the function settles   *)
(* with one of the outcomes the model enumerates, and the runtime resumes a *)
(* call whose await has settled: a step that is possible is eventually      *)
(* taken.                                                                   *)
(***************************************************************************)

MaxEodCalls == 2

\* the argument of the calls: a spelling of the key ('AA', 2024-06-30) that
\* is not the normalized one
EodTickers == {T_aa}
EodDate == getQuarterEndDate("Q2", 2024)

EodInit ==
  /\ b_pc = "pricing"
  /\ price_cache \in InitialCaches
  /\ b_current = NoFiling /\ b_priorQ = NoFiling /\ b_priorY = NoFiling
  /\ b_pending = {} /\ b_requestMap = <<>> /\ b_calls = <<>>
  /\ b_priceResults = <<>> /\ b_table = <<>>

\* getEodPrice(supabase, ticker, reportDate) is called and runs to its
\* cache read
Eod_Call(ticker) ==
  /\ b_pc = "pricing"
  /\ Len(b_calls) < MaxEodCalls
  /\ ticker # <<>>
  /\ b_calls' = Append(b_calls, newCall(ticker, EodDate))
  /\ UNCHANGED <<price_cache, b_pc, b_current, b_priorQ, b_priorY, b_pending,
                 b_requestMap, b_priceResults, b_table>>
  /\ UNCHANGED notB

EodNext ==
  \/ \E ticker \in EodTickers : Eod_Call(ticker)
  \/ \E k \in 1..MaxEodCalls : E_CacheRead(k)
  \/ \E k \in 1..MaxEodCalls : E_Fetch(k)
  \/ \E k \in 1..MaxEodCalls : E_Upsert(k)
  \/ \E k \in 1..MaxEodCalls : E_UpsertNull(k)

InitEod == EodInit /\ NormIdle /\ AIdle /\ SwapIdle /\ RestIdle

SpecEod == InitEod /\ [][EodNext]_vars /\ WF_vars(EodNext)

\* the attempts of call k that have contacted the market-data source
B_Contacts(k) ==
  b_calls[k].failed + (IF b_calls[k].pc = "upsert" \/ b_calls[k].wrote = "price" THEN 1 ELSE 0)

\* a fetch attempt of call k answers in this step
B_AttemptStep(k) ==
  /\ k \in 1..Len(b_calls)
  /\ b_calls[k].pc = "fetch"
  /\ b_calls'[k] # b_calls[k]

\* an attempt is made only when every earlier attempt of the call has ended
\* without a price, and it is one of the first RETRIES
B_AttemptInOrder ==
  \A k \in 1..MaxCalls :
    B_AttemptStep(k) =>
      /\ b_calls[k].attempt = b_calls[k].failed + 1
      /\ b_calls[k].attempt <= RETRIES
      /\ b_calls[k].wrote = "none"
      /\ IsNullNum(b_calls[k].roundedPrice)
      /\ B_Contacts(k) = b_calls[k].failed
      /\ B_Contacts(k)' = B_Contacts(k) + 1
      /\ \A j \in 1..Len(b_calls) : j # k => b_calls'[j] = b_calls[j]

\* C21: one getEodPrice call contacts the source at most RETRIES = 3 times,
\* one attempt after the other and none after a successful one, never
\* raises, and whatever the source answers every call eventually returns
C21_BoundedRetriesTerminate ==
  /\ [](\A k \in 1..Len(b_calls) :
          /\ B_Contacts(k) <= RETRIES
          /\ b_calls[k].pc # "raised")
  /\ [][B_AttemptInOrder]_vars
  /\ \A k \in 1..MaxEodCalls :
       (Len(b_calls) >= k) ~> (Len(b_calls) >= k /\ b_calls[k].pc = "done")

\* a call has returned null after RETRIES failed attempts, another has
\* returned the price of its first attempt
C21_Witness ==
  /\ b_pc = "pricing"
  /\ \E k \in 1..Len(b_calls) :
       /\ b_calls[k].pc = "done" /\ B_Contacts(k) = RETRIES
       /\ b_calls[k].failed = RETRIES /\ IsNullNum(b_calls[k].ret)
  /\ \E k \in 1..Len(b_calls) :
       /\ b_calls[k].pc = "done" /\ B_Contacts(k) = 1
       /\ b_calls[k].from = "yahoo" /\ b_calls[k].ret = roundedPrice(CLOSE_LIVE)

(***************************************************************************)
(* Properties of getEODPrice of index.ts (SpecA)                            *)
(***************************************************************************)

\* the upsert of the fetched price is applied and getEODPrice returns
G_StoredAndReturned ==
  /\ g.pc = "upsert" /\ g'.pc = "done"
  /\ price_cache' # price_cache

\* C22: when a live fetch succeeds, the value getEODPrice returns is the
\* price rounded to 2 decimals, and it is the value price_cache then holds
\* for the key, which a later call returns from the cache
C22_ReturnedPriceIsCachedPrice ==
  [][G_StoredAndReturned =>
       /\ g'.ret = RoundNumeric2(g.yahooPrice)
       /\ \A r \in {x \in price_cache' : x.ticker = g.ticker /\ x.report_date = g.date} :
            r.price = g'.ret]_vars

(***************************************************************************)
(* Properties of getEodPrice of part_000 on its own (SpecEod)               *)
(***************************************************************************)

B_PriceOrNull(price) == IsNullNum(price) \/ IsPositive(price)

\* C23: getEodPrice never returns a price that is 0 or negative and never
\* writes one to price_cache; a close of 0 or a null close in the answer of
\* the source counts as no price
C23_NoZeroOrNegativePrice ==
  /\ \A k \in 1..Len(b_calls) :
       b_calls[k].pc = "done" => B_PriceOrNull(b_calls[k].ret)
  /\ \A r \in price_cache : B_PriceOrNull(r.price)

(***************************************************************************)
(* findTickerByName of index.ts as a function of the issuer name and of     *)
(* the answer of the symbol search.                                         *)
(***************************************************************************)

MaxQuotes == 2

\* quotes without a symbol, without a name, and with a name and a symbol
\* that both match
Q_NOSYM == [symbol |-> <<>>, name |-> <<"a", "b", " ", "k">>]
Q_NONAME == [symbol |-> T_K, name |-> <<>>]
Q_BOTH == [symbol |-> T_K, name |-> <<"a", "b", " ", "k">>]

QuotePool == {Q_GOOD, Q_PART, Q_BAD, Q_NOSYM, Q_NONAME, Q_BOTH}

RECURSIVE QuoteLists(_)
QuoteLists(n) ==
  IF n = 0 THEN {<<>>}
  ELSE LET shorter == QuoteLists(n - 1)
       IN  shorter \cup {Append(qs, q) : qs \in shorter, q \in QuotePool}

FindNames == {<<>>, NAME_1, NAME_2, <<"a", "b">>}

FindResponses ==
  {[kind |-> "non2xx", quotes |-> <<>>], [kind |-> "exception", quotes |-> <<>>]}
  \cup {[kind |-> "ok", quotes |-> qs] : qs \in QuoteLists(MaxQuotes)}

FindInit ==
  /\ f_pc = "input"
  /\ f_issuerName \in FindNames
  /\ f_res \in FindResponses
  /\ f_result = [ticker |-> <<>>, score |-> NullNum]

\* findTickerByName(issuerName) returns
Find_Return ==
  /\ f_pc = "input"
  /\ f_result' = findTickerByName(f_issuerName, f_res)
  /\ f_pc' = "returned"
  /\ UNCHANGED <<f_issuerName, f_res>>
  /\ UNCHANGED notFind

FindNext == Find_Return

ReportIdle == price_cache = {} /\ NormIdle /\ AIdle /\ BIdle /\ SwapIdle

InitFind == FindInit /\ ReportIdle /\ OthersIdle("find")

SpecFind == InitFind /\ [][FindNext]_vars

\* the score of the claim: token-set similarity of the issuer name and the
\* candidate's name (its symbol when it has no name), plus 0.15 when the
\* upper-cased issuer name contains the upper-cased symbol, at most 1
F_Score(q) ==
  LET text == IF q.name # <<>> THEN q.name ELSE q.symbol
      A == tokens(f_issuerName)
      B == tokens(text)
      sim == IF f_issuerName = <<>> \/ text = <<>> THEN Int2Num(0)
             ELSE Num(Cardinality(A \cap B), Cardinality(A \cup B))
      boosted == IF includes(toUpperCase(f_issuerName), toUpperCase(q.symbol))
                 THEN NumAdd(sim, Num(15, 100)) ELSE sim
  IN  IF NumGt(boosted, Int2Num(1)) THEN Int2Num(1) ELSE boosted

F_Quotes == f_res.quotes

\* quote j has the highest score of the answer
F_Maximal(j) ==
  \A i \in 1..Len(F_Quotes) : NumGe(F_Score(F_Quotes[j]), F_Score(F_Quotes[i]))

F_Searched == f_pc = "returned" /\ f_issuerName # <<>> /\ f_res.kind = "ok"

\* C24: findTickerByName returns the symbol of the highest-scoring candidate
\* when that score is at least 0.65 and ticker null otherwise, so a ticker
\* that is returned is the symbol of a candidate of the answer whose score
\* is maximal and at least 0.65
C24_BestCandidateAboveThreshold ==
  /\ F_Searched =>
       /\ f_result.ticker # <<>> =>
            \E j \in 1..Len(F_Quotes) :
              /\ F_Quotes[j].symbol = f_result.ticker
              /\ F_Maximal(j)
              /\ NumGe(F_Score(F_Quotes[j]), Num(65, 100))
              /\ f_result.score = F_Score(F_Quotes[j])
       /\ (\E j \in 1..Len(F_Quotes) :
             F_Maximal(j) /\ NumGe(F_Score(F_Quotes[j]), Num(65, 100)))
            => \E j \in 1..Len(F_Quotes) :
                 /\ F_Maximal(j)
                 /\ f_result.ticker = F_Quotes[j].symbol
       /\ (\A j \in 1..Len(F_Quotes) : ~NumGe(F_Score(F_Quotes[j]), Num(65, 100)))
            => f_result.ticker = <<>>
  /\ (f_pc = "returned" /\ ~F_Searched) => f_result.ticker = <<>>

\* the answer holds a candidate below the threshold before one that scores
\* exactly 0.65 = 1/2 + 0.15, and the symbol of the second is returned
C24_Witness ==
  /\ F_Searched
  /\ Len(F_Quotes) = 2
  /\ F_Score(F_Quotes[1]) = Int2Num(0)
  /\ F_Score(F_Quotes[2]) = Num(65, 100)
  /\ f_result.ticker = F_Quotes[2].symbol
  /\ f_result.ticker # <<>>

\* price_cache holds a row for the key of call k and no other call is in
\* flight
B_Quiet(k) ==
  /\ B_RowsIn(price_cache, b_calls[k].normalizedTicker, b_calls[k].reportDate) # {}
  /\ \A j \in 1..Len(b_calls) : j # k => b_calls[j].pc = "done"

\* the cache read of call k answers in this step
B_ReadAnswers(k) ==
  /\ k \in 1..Len(b_calls)
  /\ b_calls[k].pc = "read"
  /\ b_calls'[k] # b_calls[k]

\* call k returns the stored price in this step and leaves the row alone
B_ReturnsStored(k) ==
  /\ b_calls'[k].pc = "done" /\ b_calls'[k].from = "cache"
  /\ B_RowsIn(price_cache, b_calls[k].normalizedTicker, b_calls[k].reportDate)
       = {[ticker |-> b_calls[k].normalizedTicker,
           report_date |-> b_calls[k].reportDate, price |-> b_calls'[k].ret]}
  /\ price_cache' = price_cache

B_MatchedTicker(prior, i) ==
  LET k == priorIndex(prior, b_current.holdings[i])
  IN  IF k = 0 THEN <<>> ELSE prior.holdings[k].ticker

\* every request for the report date of prior carries the ticker of a prior
\* holding matched to some current holding
B_PriorRequestsFromPrior(prior) ==
  \A m \in 1..Len(b_requestMap) :
    (IsFiling(prior) /\ b_requestMap[m].date = reportDateOf(prior)) =>
      \E i \in 1..Len(b_current.holdings) :
        /\ B_MatchedTicker(prior, i) # <<>>
        /\ B_MatchedTicker(prior, i) = b_requestMap[m].ticker

\* C26: a price request for the prior-quarter or prior-year date is issued
\* only with the ticker that the matched prior holding itself carries, never
\* with the ticker resolved for the current holding; a row whose matched
\* prior holding has no ticker has the prior-period EOD price 0 and the EOD
\* delta 0, also when its own ticker was resolved and priced
C26_PriorRequestsNeedPriorTicker ==
  /\ B_PriorRequestsFromPrior(b_priorQ)
  /\ B_PriorRequestsFromPrior(b_priorY)
  /\ \A k \in 1..Len(b_calls) :
       \E m \in 1..Len(b_requestMap) :
         b_requestMap[m].ticker = b_calls[k].ticker /\ b_requestMap[m].date = b_calls[k].reportDate
  /\ b_pc = "done" =>
       \A r \in 1..Len(b_table) :
         /\ B_MatchedTicker(b_priorQ, b_table[r].idx) = <<>> =>
              /\ b_table[r].priorQEodPrice = Int2Num(0)
              /\ b_table[r].qoqEodPriceChange = Int2Num(0)
         /\ B_MatchedTicker(b_priorY, b_table[r].idx) = <<>> =>
              /\ b_table[r].priorYEodPrice = Int2Num(0)
              /\ b_table[r].yoyEodPriceChange = Int2Num(0)

\* the table holds a row whose ticker was resolved from its CUSIP and priced,
\* whose matched prior-quarter holding has no ticker, and no request was made
\* for the prior-quarter date
C26_Witness ==
  /\ b_pc = "done"
  /\ IsFiling(b_priorQ)
  /\ \E r \in 1..Len(b_table) :
       /\ b_table[r].ticker = T_BB
       /\ priorIndex(b_priorQ, b_current.holdings[b_table[r].idx]) # 0
       /\ B_MatchedTicker(b_priorQ, b_table[r].idx) = <<>>
       /\ IsPositive(b_table[r].currentEodPrice)
       /\ b_table[r].priorQEodPrice = Int2Num(0)
       /\ b_table[r].qoqEodPriceChange = Int2Num(0)
  /\ \A m \in 1..Len(b_requestMap) : b_requestMap[m].date # reportDateOf(b_priorQ)

(***************************************************************************)
(* check-new-filings and send-portfolio-email.  check-new-filings asks     *)
(* fetch-13f-filing for the new filings and calls send-portfolio-email for *)
(* each of them in turn; send-portfolio-email fetches the report, sends    *)
(* the mail over SMTP and writes a row to email_logs.                      *)
(***************************************************************************)

MaxNewFilings == 2

\* recipient: 'peacenlov32@gmail.com'
RECIPIENT == "peacenlov32@gmail.com"

NewFiling(k) == [id |-> k, quarter |-> "Q2", year |-> 2023 + k]

\* fetchData: the JSON answer of fetch-13f-filing
FetchAnswers ==
  {[success |-> FALSE, filings |-> <<>>]}
  \cup {[success |-> TRUE, filings |-> [k \in 1..n |-> NewFiling(k)]] : n \in 0..MaxNewFilings}

\* the two responses of send-portfolio-email
mailSuccess ==
  [status |-> 200, body |-> [status |-> "success", message |-> "Email sent successfully"]]

mailError(errorMessage) ==
  [status |-> 500, body |-> [status |-> "error", message |-> errorMessage]]

\* emailData.success ? 'sent' : 'failed'; a field the object lacks is undefined
emailStatus(emailData) ==
  IF "success" \in DOMAIN emailData /\ emailData["success"] = TRUE THEN "sent" ELSE "failed"

MailInit ==
  /\ c_pc = "fetch" /\ c_filings = <<>> /\ c_i = 0 /\ c_results = <<>>
  /\ c_response = <<>>
  /\ e_pc = "idle" /\ e_env \in BOOLEAN /\ e_filingId = 0 /\ e_recipient = ""
  /\ e_smtp = "none" /\ e_errorMessage = "" /\ e_response = <<>>
  /\ email_logs = <<>>

\* check-new-filings: fetch-13f-filing answers
C_FetchFilings ==
  /\ c_pc = "fetch"
  /\ \/ \E fetchData \in FetchAnswers :
          IF ~fetchData.success \/ fetchData.filings = <<>>
          THEN /\ c_response' = <<[status |-> 200, success |-> TRUE,
                                   message |-> "No new filings found"]>>
               /\ c_pc' = "done"
               /\ UNCHANGED <<c_filings, c_i>>
          ELSE /\ c_filings' = fetchData.filings
               /\ c_i' = 1
               /\ c_pc' = "call"
               /\ UNCHANGED c_response
     \/ /\ c_response' = <<[status |-> 500, error |-> "fetch failed"]>>
        /\ c_pc' = "done"
        /\ UNCHANGED <<c_filings, c_i>>
  /\ UNCHANGED <<c_results, e_pc, e_env, e_filingId, e_recipient, e_smtp,
                 e_errorMessage, e_response, email_logs>>
  /\ UNCHANGED notMail

\* check-new-filings posts {filingId, recipient} to send-portfolio-email,
\* which reads the body and requests the report
C_CallEmail ==
  /\ c_pc = "call"
  /\ e_pc = "idle"
  /\ e_filingId' = c_filings[c_i].id
  /\ e_recipient' = RECIPIENT
  /\ e_smtp' = "none"
  /\ e_errorMessage' = ""
  /\ e_pc' = "report"
  /\ c_pc' = "await"
  /\ UNCHANGED <<c_filings, c_i, c_results, c_response, e_env, e_response, email_logs>>
  /\ UNCHANGED notMail

\* the catch block of send-portfolio-email: the failed row is written only
\* when filingId and recipient are known
M_Catch(errorMessage) ==
  /\ e_errorMessage' = errorMessage
  /\ IF e_filingId # 0 /\ e_recipient # ""
     THEN /\ e_pc' = "logFailed"
          /\ UNCHANGED e_response
     ELSE /\ e_pc' = "responded"
          /\ e_response' = <<mailError(errorMessage)>>

\* generate-portfolio-report answers; then the credentials are read
M_Report ==
  /\ e_pc = "report"
  /\ \E o \in {"ok", "notOk", "exception"} :
       IF o = "ok" /\ e_env
       THEN /\ e_pc' = "send"
            /\ UNCHANGED <<e_errorMessage, e_response>>
       ELSE M_Catch(IF o = "ok" THEN "Email credentials not configured"
                    ELSE IF o = "notOk" THEN "Failed to generate report"
                    ELSE "report request failed")
  /\ UNCHANGED <<c_pc, c_filings, c_i, c_results, c_response, e_env, e_filingId,
                 e_recipient, e_smtp, email_logs>>
  /\ UNCHANGED notMail

\* client.send settles: the mail is delivered or the call throws
M_Send ==
  /\ e_pc = "send"
  /\ \/ /\ e_smtp' = "sent"
        /\ e_pc' = "close"
        /\ UNCHANGED <<e_errorMessage, e_response>>
     \/ /\ e_smtp' = "failed"
        /\ M_Catch("SMTP send failed")
  /\ UNCHANGED <<c_pc, c_filings, c_i, c_results, c_response, e_env, e_filingId,
                 e_recipient, email_logs>>
  /\ UNCHANGED notMail

\* client.close settles
M_Close ==
  /\ e_pc = "close"
  /\ \/ /\ e_pc' = "logSent"
        /\ UNCHANGED <<e_errorMessage, e_response>>
     \/ M_Catch("SMTP close failed")
  /\ UNCHANGED <<c_pc, c_filings, c_i, c_results, c_response, e_env, e_filingId,
                 e_recipient, e_smtp, email_logs>>
  /\ UNCHANGED notMail

\* the insert of the 'sent' row settles; an error result is not looked at
M_LogSent ==
  /\ e_pc = "logSent"
  /\ \E o \in StoreOutcomes :
       IF o = "throw"
       THEN /\ M_Catch("insert failed")
            /\ UNCHANGED email_logs
       ELSE /\ email_logs' = IF o = "ok"
                             THEN Append(email_logs,
                                    [filing_id |-> e_filingId, recipient |-> e_recipient,
                                     status |-> "sent", error_message |-> ""])
                             ELSE email_logs
            /\ e_response' = <<mailSuccess>>
            /\ e_pc' = "responded"
            /\ UNCHANGED e_errorMessage
  /\ UNCHANGED <<c_pc, c_filings, c_i, c_results, c_response, e_env, e_filingId,
                 e_recipient, e_smtp>>
  /\ UNCHANGED notMail

\* the insert of the 'failed' row settles, inside its own try
M_LogFailed ==
  /\ e_pc = "logFailed"
  /\ \E o \in StoreOutcomes :
       email_logs' = IF o = "ok"
                     THEN Append(email_logs,
                            [filing_id |-> e_filingId, recipient |-> e_recipient,
                             status |-> "failed", error_message |-> e_errorMessage])
                     ELSE email_logs
  /\ e_response' = <<mailError(e_errorMessage)>>
  /\ e_pc' = "responded"
  /\ UNCHANGED <<c_pc, c_filings, c_i, c_results, c_response, e_env, e_filingId,
                 e_recipient, e_smtp, e_errorMessage>>
  /\ UNCHANGED notMail

\* check-new-filings reads the answer, pushes the result entry and goes on
\* to the next filing or returns; answered, the status field of the answer,
\* is not in the code's entry
C_AfterEmail ==
  /\ c_pc = "await"
  /\ e_pc = "responded"
  /\ LET emailData == e_response[1].body
         filing == c_filings[c_i]
         results == Append(c_results,
                      [filing |-> <<filing.quarter, filing.year>>, id |-> filing.id,
                       emailStatus |-> emailStatus(emailData),
                       answered |-> emailData.status])
     IN  /\ c_results' = results
         /\ IF c_i < Len(c_filings)
            THEN /\ c_i' = c_i + 1
                 /\ c_pc' = "call"
                 /\ UNCHANGED c_response
            ELSE /\ c_response' = <<[status |-> 200, success |-> TRUE, results |-> results]>>
                 /\ c_pc' = "done"
                 /\ UNCHANGED c_i
  /\ e_pc' = "idle"
  /\ UNCHANGED <<c_filings, e_env, e_filingId, e_recipient, e_smtp, e_errorMessage,
                 e_response, email_logs>>
  /\ UNCHANGED notMail

MailNext ==
  \/ C_FetchFilings
  \/ C_CallEmail
  \/ M_Report
  \/ M_Send
  \/ M_Close
  \/ M_LogSent
  \/ M_LogFailed
  \/ C_AfterEmail

InitMail == MailInit /\ ReportIdle /\ OthersIdle("mail")

SpecMail == InitMail /\ [][MailNext]_vars

\* C27: for every filing check-new-filings has processed, the result entry
\* has emailStatus 'sent' exactly when send-portfolio-email answered with its
\* success response, and 'failed' exactly when it answered with its error
\* response
C27_EmailStatusFollowsAnswer ==
  \A r \in 1..Len(c_results) :
    /\ c_results[r].emailStatus = "sent" <=> c_results[r].answered = "success"
    /\ c_results[r].emailStatus = "failed" <=> c_results[r].answered = "error"

\* the rows of email_logs written for the request at hand
M_RowsOfRequest == {i \in 1..Len(email_logs) : email_logs[i].filing_id = e_filingId}

\* C28: every send-portfolio-email request that carries a filingId and a
\* recipient leaves exactly one email_logs row, written only after the SMTP
\* send attempt has finished; its status is 'sent' exactly when client.send
\* completed and 'failed', with the error message, otherwise, so that no
\* 'failed' row exists for a mail that was sent
C28_OneLogRowMatchingDelivery ==
  /\ (e_pc \in {"report", "send"} /\ e_smtp = "none") => M_RowsOfRequest = {}
  /\ (e_pc = "responded" /\ e_filingId # 0 /\ e_recipient # "") =>
       /\ Cardinality(M_RowsOfRequest) = 1
       /\ \A i \in M_RowsOfRequest :
            /\ email_logs[i].status = "sent" <=> e_smtp = "sent"
            /\ email_logs[i].status = "failed" <=> e_smtp # "sent"
            /\ email_logs[i].status = "failed" => email_logs[i].error_message # ""

(***************************************************************************)
(* fetch-13f-filing: each run reads the list of 13F-HR filings, picks the   *)
(* latest, the one before it and the one of the same quarter a year ago,    *)
(* and for each of them that the filings table does not hold yet inserts    *)
(* the filing row and then its holdings rows.                               *)
(***************************************************************************)

MaxRuns == 2

DUQUESNE_CIK == "0001536411"

\* a report date is <<year, month>>; Math.floor(getMonth() / 3) + 1 with the
\* month counted from 0
quarterNumber(filedFor) == ((filedFor[2] - 1) \div 3) + 1

quarterOf(filedFor) ==
  CASE quarterNumber(filedFor) = 1 -> "Q1"
    [] quarterNumber(filedFor) = 2 -> "Q2"
    [] quarterNumber(filedFor) = 3 -> "Q3"
    [] OTHER -> "Q4"

yearOf(filedFor) == filedFor[1]

\* filings13F.find(f => quarter === latestQuarter && year === targetYear)
RECURSIVE findYearAgo(_, _)
findYearAgo(filings13F, latest) ==
  IF filings13F = <<>> THEN <<>>
  ELSE IF /\ quarterNumber(Head(filings13F)) = quarterNumber(latest)
          /\ yearOf(Head(filings13F)) = yearOf(latest) - 1
       THEN <<Head(filings13F)>>
       ELSE findYearAgo(Tail(filings13F), latest)

\* the latest filing, the second most recent and the one a year ago
recentFilings(filings13F) ==
  IF filings13F = <<>> THEN <<>>
  ELSE <<filings13F[1]>>
       \o (IF Len(filings13F) > 1 THEN <<filings13F[2]>> ELSE <<>>)
       \o findYearAgo(filings13F, filings13F[1])

\* the 13F-HR report dates of the submissions answer, most recent first
SubmissionLists ==
  {<<>>,
   <<<<2024, 6>>>>,
   <<<<2024, 6>>, <<2024, 3>>>>,
   <<<<2024, 6>>, <<2023, 6>>>>,
   <<<<2024, 6>>, <<2024, 3>>, <<2023, 12>>, <<2023, 6>>>>}

\* what parseHoldings finds in the information table: the cusips
ParsedHoldings == {{}, {1, 2}}

\* the filings row with this (cik, quarter, year), if any
existingFiling(filedFor) ==
  {f \in db_filings : f.cik = DUQUESNE_CIK /\ f.quarter = quarterOf(filedFor)
                      /\ f.year = yearOf(filedFor)}

IngestInit ==
  /\ db_filings = {} /\ db_holdings = {}
  /\ i_pc = "idle" /\ i_run = 0 /\ i_recentFilings = <<>> /\ i_k = 0
  /\ i_holdings = {} /\ i_filingRecord = 0 /\ i_processedFilings = <<>>
  /\ i_failed = {}

\* continue, or the end of the loop and the response
I_Continue ==
  IF i_k < Len(i_recentFilings)
  THEN i_k' = i_k + 1 /\ i_pc' = "check"
  ELSE i_k' = i_k /\ i_pc' = "done"

\* a request arrives and the submissions answer is read
I_Start ==
  /\ i_pc \in {"idle", "done"}
  /\ i_run < MaxRuns
  /\ i_run' = i_run + 1
  /\ i_processedFilings' = <<>>
  /\ i_holdings' = {}
  /\ i_filingRecord' = 0
  /\ \/ \E filings13F \in SubmissionLists :
          /\ i_recentFilings' = recentFilings(filings13F)
          /\ i_k' = IF recentFilings(filings13F) = <<>> THEN 0 ELSE 1
          /\ i_pc' = IF recentFilings(filings13F) = <<>> THEN "done" ELSE "check"
     \/ /\ i_recentFilings' = <<>>
        /\ i_k' = 0
        /\ i_pc' = "done"
  /\ UNCHANGED <<db_filings, db_holdings, i_failed>>
  /\ UNCHANGED notIngest

\* the select on (cik, quarter, year) answers; an error leaves data null
I_CheckExisting ==
  /\ i_pc = "check"
  /\ \E o \in {"ok", "error"} :
       IF o = "ok" /\ existingFiling(i_recentFilings[i_k]) # {}
       THEN I_Continue
       ELSE i_pc' = "document" /\ i_k' = i_k
  /\ UNCHANGED <<db_filings, db_holdings, i_run, i_recentFilings, i_holdings,
                 i_filingRecord, i_processedFilings, i_failed>>
  /\ UNCHANGED notIngest

\* the information table is fetched and parsed
I_FetchDocument ==
  /\ i_pc = "document"
  /\ \/ \E holdings \in ParsedHoldings :
          IF holdings = {}
          THEN I_Continue /\ UNCHANGED i_holdings
          ELSE i_holdings' = holdings /\ i_pc' = "insertFiling" /\ i_k' = i_k
     \/ I_Continue /\ UNCHANGED i_holdings
  /\ UNCHANGED <<db_filings, db_holdings, i_run, i_recentFilings, i_filingRecord,
                 i_processedFilings, i_failed>>
  /\ UNCHANGED notIngest

\* the insert into filings answers; UNIQUE(cik, quarter, year) rejects a
\* second row for the period
I_InsertFiling ==
  /\ i_pc = "insertFiling"
  /\ \E o \in {"ok", "error"} :
       IF o = "ok" /\ existingFiling(i_recentFilings[i_k]) = {}
       THEN LET id == Cardinality(db_filings) + 1
            IN  /\ db_filings' = db_filings \cup
                     {[id |-> id, cik |-> DUQUESNE_CIK,
                       quarter |-> quarterOf(i_recentFilings[i_k]),
                       year |-> yearOf(i_recentFilings[i_k])]}
                /\ i_filingRecord' = id
                /\ i_pc' = "insertHoldings"
                /\ i_k' = i_k
       ELSE /\ I_Continue
            /\ UNCHANGED <<db_filings, i_filingRecord>>
  /\ UNCHANGED <<db_holdings, i_run, i_recentFilings, i_holdings, i_processedFilings,
                 i_failed>>
  /\ UNCHANGED notIngest

\* the insert of the holdings rows answers; i_failed, the filings whose
\* holdings were refused, is not a variable of the code
I_InsertHoldings ==
  /\ i_pc = "insertHoldings"
  /\ \E o \in {"ok", "error"} :
       IF o = "ok"
       THEN /\ db_holdings' = db_holdings \cup
                 {[filing_id |-> i_filingRecord, cusip |-> c] : c \in i_holdings}
            /\ i_processedFilings' = Append(i_processedFilings, i_filingRecord)
            /\ UNCHANGED i_failed
       ELSE /\ i_failed' = i_failed \cup {i_filingRecord}
            /\ UNCHANGED <<db_holdings, i_processedFilings>>
  /\ I_Continue
  /\ UNCHANGED <<db_filings, i_run, i_recentFilings, i_holdings, i_filingRecord>>
  /\ UNCHANGED notIngest

IngestNext ==
  \/ I_Start
  \/ I_CheckExisting
  \/ I_FetchDocument
  \/ I_InsertFiling
  \/ I_InsertHoldings

InitIngest == IngestInit /\ ReportIdle /\ OthersIdle("ingest")

SpecIngest == InitIngest /\ [][IngestNext]_vars

\* C29: whatever inserts failed, the filings table holds at most one row per
\* (cik, quarter, year), and when a run has ended every filings row has
\* holdings rows: a filing whose holdings were refused does not stay behind
\* as a row that later runs take for an ingested filing and skip
C29_FilingsUniqueAndComplete ==
  /\ \A f1, f2 \in db_filings :
       (f1.cik = f2.cik /\ f1.quarter = f2.quarter /\ f1.year = f2.year) => f1 = f2
  /\ i_pc = "done" =>
       \A f \in db_filings : \E h \in db_holdings : h.filing_id = f.id

(***************************************************************************)
(* Dashboard (part_003): on mount the filings are loaded and the report of  *)
(* the first one requested; a click on a quarter button selects the filing  *)
(* and starts another loadReport.  Each loadReport is an async call: its    *)
(* beginning and its completion are separate steps, and calls in flight     *)
(* complete in any order.  The "Fetch New Filings" and "Email Report"       *)
(* buttons are left out.                                                    *)
(***************************************************************************)

\* loadReport calls begun over a session of the component
MaxLoads == 3

DashFiling(id, quarter, year) == [id |-> id, quarter |-> quarter, year |-> year]

\* what the filings table answers, ordered by filing_date descending
FilingLists ==
  {<<>>,
   <<DashFiling(1, "Q2", 2024), DashFiling(2, "Q1", 2024)>>,
   <<DashFiling(1, "Q2", 2024), DashFiling(2, "Q1", 2024), DashFiling(3, "Q4", 2023),
     DashFiling(4, "Q2", 2023)>>}

\* sorted.find(f => f.quarter === latest.quarter && f.year === latest.year - 1)
RECURSIVE dashYearAgo(_, _)
dashYearAgo(sorted, latest) ==
  IF sorted = <<>> THEN <<>>
  ELSE IF Head(sorted).quarter = latest.quarter /\ Head(sorted).year = latest.year - 1
       THEN <<Head(sorted)>>
       ELSE dashYearAgo(Tail(sorted), latest)

\* the filings the quarter selector shows: the list comes sorted by
\* filing_date descending, which the sort keeps
getRelevantFilings(list) ==
  IF list = <<>> THEN <<>>
  ELSE LET result == <<list[1]>> \o (IF Len(list) > 1 THEN <<list[2]>> ELSE <<>>)
           yearAgo == dashYearAgo(list, list[1])
       IN  IF yearAgo # <<>> /\ \A i \in 1..Len(result) : result[i].id # yearAgo[1].id
           THEN result \o yearAgo
           ELSE result

\* the answer of generate-portfolio-report for a filing
reportOf(ofFiling) == [filingId |-> ofFiling]

DashInit ==
  /\ d_pc = "loadFilings"
  /\ d_filings = <<>>
  /\ d_selectedFiling = <<>>
  /\ d_reportData = <<>>
  /\ d_isLoading = FALSE
  /\ d_inflight = {}
  /\ d_loads = 0

\* loadReport up to its await: setIsLoading(true) and the request is sent
loadReport_begin(ofFiling) ==
  /\ d_loads < MaxLoads
  /\ d_loads' = d_loads + 1
  /\ d_isLoading' = TRUE
  /\ d_inflight' = d_inflight \cup {[call |-> d_loads + 1, filingId |-> ofFiling]}

\* loadFilings of the mount effect answers
D_LoadFilings ==
  /\ d_pc = "loadFilings"
  /\ d_pc' = "ready"
  /\ \/ \* error: a toast, nothing is set
        UNCHANGED <<d_filings, d_selectedFiling, d_isLoading, d_inflight, d_loads>>
     \/ \E data \in FilingLists :
          /\ d_filings' = data
          /\ IF data # <<>> /\ d_selectedFiling = <<>>
             THEN /\ loadReport_begin(data[1].id)
                  /\ d_selectedFiling' = <<data[1]>>
             ELSE UNCHANGED <<d_selectedFiling, d_isLoading, d_inflight, d_loads>>
  /\ UNCHANGED d_reportData
  /\ UNCHANGED notDash

\* a click on a button of the quarter selector
D_Select ==
  /\ d_pc = "ready"
  /\ \E i \in 1..Len(getRelevantFilings(d_filings)) :
       LET filing == getRelevantFilings(d_filings)[i]
       IN  /\ d_selectedFiling' = <<filing>>
           /\ loadReport_begin(filing.id)
  /\ UNCHANGED <<d_pc, d_filings, d_reportData>>
  /\ UNCHANGED notDash

\* the invoke of a loadReport call in flight answers: setReportData(data)
\* or the toast of the catch, and setIsLoading(false) in both cases
D_LoadReportDone ==
  /\ \E c \in d_inflight :
       /\ d_inflight' = d_inflight \ {c}
       /\ \/ d_reportData' = <<reportOf(c.filingId)>>
          \/ UNCHANGED d_reportData
  /\ d_isLoading' = FALSE
  /\ UNCHANGED <<d_pc, d_filings, d_selectedFiling, d_loads>>
  /\ UNCHANGED notDash

DashNext ==
  \/ D_LoadFilings
  \/ D_Select
  \/ D_LoadReportDone

InitDash == DashInit /\ ReportIdle /\ OthersIdle("dash")

SpecDash == InitDash /\ [][DashNext]_vars

\* C30: whenever the Dashboard is not loading and holds a report, the report
\* is the one generated for the selected filing, and the Dashboard is not
\* loading only when no loadReport call is in flight
C30_ReportIsForSelectedFiling ==
  /\ (~d_isLoading /\ d_reportData # <<>>) =>
       /\ d_selectedFiling # <<>>
       /\ d_reportData[1].filingId = d_selectedFiling[1].id
  /\ ~d_isLoading => d_inflight = {}

====
